---- MODULE Spec2Model ----
(***************************************************************************)
(* Window-message dispatch and cross-thread marshaling core of winsafe:    *)
(* gui::Base (src/src/gui/base.rs), its two event tables, the reserved     *)
(* WM_UI_THREAD message and the message loop run_main_loop.                *)
(*                                                                         *)
(* The specifications share the variables:                                 *)
(*   SpecEvents - a Base before and after creation: on(), privileged_on(), *)
(*                set_hwnd(), process_*_message(s), clear_events();        *)
(*   Spec       - a created window with its message loop running, senders  *)
(*                on other threads, and the substrate's queues;            *)
(*   SpecPost, SpecForged - the loop from before creation, with threads    *)
(*                spawned by handlers, and with foreign WM_UI_THREAD;      *)
(*   SpecLive   - Spec's loop under fair message retrieval;                *)
(*   SpecProc   - the window procedure's two-tier dispatch;                *)
(*   SpecLayout - Base::layout_arranger and WM_SIZE;                       *)
(*   SpecCom    - com::IUnknown (src/src/com/iunknown.rs);                 *)
(*   SpecPbm    - the progress bar messages (comctl/messages/pbm.rs);      *)
(*   SpecEnum   - dshow::IEnumFilters and its iterator;                    *)
(*   SpecDefaults - the two built-in closures, from construction on;       *)
(*   SpecOwned  - a second Base, of a child or an owned modal window;      *)
(*   SpecBase   - every operation of a Base made with or without a parent. *)
(***************************************************************************)
EXTENDS Integers, Sequences, FiniteSets, TLC

(***************************************************************************)
(* Bounds of the model.                                                    *)
(***************************************************************************)
\* registrations a behaviour of SpecEvents makes after Base::new
MaxRegs == 3
\* registrations made before the window of Spec is created
MaxInitRegs == 1
\* input messages the substrate posts to the UI thread's queue in Spec
MaxPosted == 1
\* worker threads that call run_ui_thread once each
NThreads == 2
\* menu commands the substrate posts to the window in SpecPost
MaxInputs == 2
\* references the COM object of SpecCom can have
MaxRefs == 3
\* explicit calls of IUnknown::Release made on the wrapper of SpecCom
MaxReleases == 3
\* messages sent to the progress bar of SpecPbm
MaxSends == 6
\* filters an IEnumFilters of SpecEnum enumerates
MaxFilters == 4
\* calls of the virtual table's Next that fail in a behaviour of SpecEnum
MaxErrors == 2
\* width, in bits, the model gives the 32-bit types (co::WM is u32, exit code i32)
WordBits == 16
\* width, in bits, the model gives the pointer-sized types (WPARAM usize, LPARAM isize)
PtrBits == 20

(***************************************************************************)
(* Integer conversions (`as` casts of the source).                         *)
(***************************************************************************)
RECURSIVE Pow2(_)
Pow2(n) == IF n = 0 THEN 1 ELSE 2 * Pow2(n - 1)

\* `x as usize` / `x as WPARAM`: two's complement, pointer width
AsUsize(x) == x % Pow2(PtrBits)

\* `x as u32`: truncation to the low word
AsU32(x) == x % Pow2(WordBits)

AsI32Wrong(x) == x % Pow2(WordBits)
\* `x as i32`: truncation to the low word, read as signed
AsI32(x) ==
    LET t == x % Pow2(WordBits)
    IN  IF t >= Pow2(WordBits - 1) THEN t - Pow2(WordBits) ELSE t

(***************************************************************************)
(* Message identifiers and handles.                                        *)
(***************************************************************************)
NULL == 0
\* the handle CreateWindowEx gives the (single, top-level) window
HMAIN == 1
\* a child control of the main window; it has a window procedure of its own
HCHILD == 2
\* a second child control
HCHILD2 == 3

\* the handle of a modal dialog the Base's window owns
HMODAL == 4

\* Base::parent_ptr: None for a Base made without a parent, else the parent Base
NoParent == 0
ParentBase == 1

\* no second Base yet.  st is "none", "new" (constructed, not created) or
\* "created"; hwnd its handle; decoded the boxes its own WM_UI_THREAD closure
\* reclaimed
NoOwned == [st |-> "none", hwnd |-> NULL, is_dialog |-> FALSE, decoded |-> {}]

WM_SIZE == 5
WM_QUIT == 18
WM_KEYDOWN == 256
WM_COMMAND == 273
WM_APP == 32768
\* const WM_UI_THREAD: co::WM = co::WM(co::WM::APP.0 + 0x3fff)
WM_UI_THREAD == WM_APP + 16383

\* virtual keys of the WM_KEYDOWN messages of the model
VK_TAB == 9
VK_F5 == 116

\* the UI thread; worker threads are 1..NThreads
UI == 0
Workers == 1..NThreads

(***************************************************************************)
(* Results, errors and the fatal-error slot.                               *)
(***************************************************************************)
\* AnyResult: Ok, or Err carrying who failed
Ok == [ok |-> TRUE, kind |-> "none", id |-> 0]
Err(kind, id) == [ok |-> FALSE, kind |-> kind, id |-> id]

\* Option<MsgError>: QUIT_ERROR
None == [some |-> FALSE, src_msg |-> 0, kind |-> "none", id |-> 0]
\* MsgError::new(src_msg, err)
MsgError(p, e) == [some |-> TRUE, src_msg |-> p.msg_id, kind |-> e.kind, id |-> e.id]

\* the quit flag of the UI thread's queue; wParam is what WM_QUIT carries, code the
\* exit code PostQuitMessage was called with (observation)
NoQuit == [set |-> FALSE, wParam |-> 0, code |-> 0]

\* what run_main_loop returns
Exit(code) == [kind |-> "ok", code |-> code, err |-> None]
Failed(e) == [kind |-> "err", code |-> 0, err |-> e]
RetrievalError == [kind |-> "retrieval", code |-> 0, err |-> None]
Running == [kind |-> "none", code |-> 0, err |-> None]

(***************************************************************************)
(* State.                                                                  *)
(***************************************************************************)
VARIABLES
    hwnd,               \* Base::hwnd
    is_dialog,          \* Base::is_dialog
    parent_ptr,         \* Base::parent_ptr
    owned,              \* a second Base, of a modal or a child window of the first
    user_events,        \* Base::user_events: sequence of [msg_id, func]
    privileged_events,  \* Base::privileged_events: sequence of [msg_id, func]
    QUIT_ERROR,         \* gui::privs::QUIT_ERROR, the process-wide fatal-error slot
    slot_access,        \* who touched QUIT_ERROR and how (observation)
    quit,               \* quit flag of the UI thread's queue and the code it carries
    heap,               \* the boxed callbacks handed to run_ui_thread, by address
    ub,                 \* Box::from_raw was given a pointer that owns no live box
    queue,              \* posted-message queue of the UI thread
    sentq,              \* messages sent from other threads, not yet processed
    thr,                \* each worker thread's position
    thread_hwnd,        \* the handle each thread works with: the copy a spawned
                        \* thread was given, or the window run_ui_thread was called on
    haccel,             \* the accelerator table given to run_main_loop
    loop_pc,            \* run_main_loop: "running" or "returned"
    loop_result,        \* what run_main_loop returned
    last,               \* what the last operation did (observation)
    fails,              \* every error handed to post_quit_error, in order (observation)
    layout,             \* Base::layout_arranger, the controls' rectangles, the last rearrange
    com,                \* an IUnknown wrapper and the COM object its pointer names
    pbm,                \* a progress bar control and the last message sent to it
    enum_filters,       \* an IEnumFilters object and what an iterator over it yielded
    nreg,               \* handlers registered so far (names the next closure)
    nposted             \* input messages posted so far

vars == <<hwnd, is_dialog, parent_ptr, owned, com, pbm, enum_filters, user_events, privileged_events, QUIT_ERROR, slot_access, quit,
          heap, ub, layout,
          queue, sentq, thr, thread_hwnd, haccel, loop_pc, loop_result, last, fails, nreg,
          nposted>>

(***************************************************************************)
(* Handlers.  A registered closure is named by its registration number and *)
(* has one of three bodies: return Ok, return Err, or call                 *)
(* PostQuitMessage(code) and return Ok.  Base::new adds two closures of    *)
(* its own to the privileged table.                                        *)
(***************************************************************************)
Closure(hid, eff, code) == [kind |-> "closure", hid |-> hid, eff |-> eff, code |-> code]
WmSizeHandler == [kind |-> "wm_size", hid |-> 0, eff |-> "ok", code |-> 0]
UiThreadHandler == [kind |-> "ui_thread", hid |-> 0, eff |-> "ok", code |-> 0]

WndMsg(msg_id, wparam, lparam) == [msg_id |-> msg_id, wparam |-> wparam, lparam |-> lparam]

\* A boxed callback: not yet allocated, live (owned through the raw pointer) or freed.
\* maker is the method that boxed it, by the thread that reclaimed it.
NoBox == [st |-> "none", res |-> "ok", invoked |-> 0, freed |-> 0, by |-> -1,
          maker |-> "none"]

\* addresses Box::into_raw gives: a worker thread's box is named by the thread, the
\* box of a call made on the UI thread has an address of its own
UiBox == NThreads + 1
Boxes == Workers \cup {UiBox}

(***************************************************************************)
(* The part of the state a handler can read and change while a message is  *)
(* processed, and the record of what ran.                                  *)
(*   inv    handlers invoked by the current call, in order                 *)
(*   thread the thread the call runs on                                    *)
(*   ub     a dangling or foreign pointer was given to Box::from_raw       *)
(*   slot_access  the accesses to QUIT_ERROR so far                        *)
(*   layout the layout arranger and the rectangles of the controls         *)
(***************************************************************************)
World(thread) ==
    [QUIT_ERROR |-> QUIT_ERROR, quit |-> quit, heap |-> heap, fails |-> fails,
     inv |-> <<>>, thread |-> thread, ub |-> ub, slot_access |-> slot_access,
     layout |-> layout]

\* user::PostQuitMessage(exit_code: i32): sets the quit flag; wParam carries the code
PostQuitMessage(w, code) ==
    [w EXCEPT !.quit = [set |-> TRUE, wParam |-> AsUsize(code), code |-> code]]

\* an access to QUIT_ERROR: "set" by post_quit_error, "take" by QUIT_ERROR.take()
Access(thread, op) == [thread |-> thread, op |-> op]

post_quit_error_last(w, p, e) ==
    PostQuitMessage([w EXCEPT !.QUIT_ERROR = MsgError(p, e)], -1)
\* gui::privs::post_quit_error(src_msg, err): remembers the first error, posts a quit
post_quit_error(w, p, e) ==
    PostQuitMessage(
        [w EXCEPT !.QUIT_ERROR = IF @.some THEN @ ELSE MsgError(p, e),
                  !.slot_access = @ \cup {Access(w.thread, "set")}], -1)

\* a failure on its way to post_quit_error, noted in the order it happened
Noted(w, p, e) == [w EXCEPT !.fails = Append(@, MsgError(p, e))]

(***************************************************************************)
(* com::IUnknown: a wrapper that owns a pointer to a COM object's virtual   *)
(* table (src/src/com/iunknown.rs).  The COM object counts its references;  *)
(* other holders may own references of their own.                           *)
(***************************************************************************)
\* the address of the one COM object of the model
PPV == 1

\* no wrapper yet.  vtbl is IUnknown::vtbl (NULL or PPV); refs is the reference
\* count of the COM object, 0 once it destroyed itself; others is how many of them
\* other holders own; nrel counts the calls of IUnknown::Release, native the calls
\* of the virtual table's Release; ret is what the last IUnknown::Release
\* returned, zero whether one of them returned 0; dangling whether the virtual
\* table's Release was called on the destroyed object
NoCom == [st |-> "none", vtbl |-> NULL, refs |-> 0, others |-> 0, nrel |-> 0,
          native |-> 0, ret |-> 0, zero |-> FALSE, dangling |-> FALSE]

\* what the virtual table's Release can return for an object with refs references:
\* the count after the decrement; on a destroyed object anything a u32 holds
\* (of which the model keeps 0 and 1)
VtblRelease(c) == IF c.refs > 0 THEN {c.refs - 1} ELSE {0, 1}

Release_keeps_pointer(c, refCount) ==
    IF c.vtbl = NULL
    THEN [c EXCEPT !.nrel = @ + 1, !.ret = 0]
    ELSE [c EXCEPT !.nrel = @ + 1,
                   !.native = @ + 1,
                   !.dangling = @ \/ c.refs = 0,
                   !.refs = IF c.refs > 0 THEN c.refs - 1 ELSE 0,
                   !.ret = refCount,
                   !.zero = @ \/ refCount = 0]
\* IUnknown::Release(&mut self), the virtual table's Release returning refCount:
\* 0 for a null pointer; else the virtual call, and the pointer is nulled when
\* the count it returned is 0
Release(c, refCount) ==
    IF c.vtbl = NULL
    THEN [c EXCEPT !.nrel = @ + 1, !.ret = 0]
    ELSE [c EXCEPT !.nrel = @ + 1,
                   !.native = @ + 1,
                   !.dangling = @ \/ c.refs = 0,
                   !.refs = IF c.refs > 0 THEN c.refs - 1 ELSE 0,
                   !.vtbl = IF refCount = 0 THEN NULL ELSE @,
                   !.ret = refCount,
                   !.zero = @ \/ refCount = 0]

(***************************************************************************)
(* comctl::messages::pbm: the message structs of the progress bar          *)
(* (src/src/comctl/messages/pbm.rs) and the control that receives them.    *)
(***************************************************************************)
\* co::WM::USER and the two identifiers of co::PBM the step messages name
WM_USER == 1024
PBM_SETSTEP == WM_USER + 4
PBM_GETSTEP == WM_USER + 13

\* the step increment a progress bar is created with
DefaultStep == 10

\* the control as created, no message sent to it yet: step is its step increment,
\* sent the last message it received and by which struct, ret what the window
\* procedure returned for it, nsent how many it received
NoPbm == [step |-> DefaultStep, sent |-> WndMsg(0, 0, 0), by |-> "none", ret |-> 0,
          nsent |-> 0]

\* GetStep::as_generic_wm: msg_id: co::PBM::SETSTEP.into(), wparam: 0, lparam: 0
GetStep_as_generic_wm == WndMsg(PBM_SETSTEP, 0, 0)

\* SetStep::as_generic_wm: msg_id: co::PBM::SETSTEP.into(), wparam: self.step as _
SetStep_as_generic_wm(step) == WndMsg(PBM_SETSTEP, AsUsize(step), 0)

\* convert_ret of both structs: v as u32
convert_ret(v) == AsU32(v)

\* the window procedure of the progress bar: PBM_SETSTEP stores the new step
\* increment and returns the previous one, PBM_GETSTEP returns it
ProgressBarProc(bar, by, m) ==
    CASE m.msg_id = PBM_SETSTEP ->
            [bar EXCEPT !.step = m.wparam, !.sent = m, !.by = by,
                        !.ret = convert_ret(bar.step), !.nsent = @ + 1]
      [] m.msg_id = PBM_GETSTEP ->
            [bar EXCEPT !.sent = m, !.by = by, !.ret = convert_ret(bar.step),
                        !.nsent = @ + 1]
      [] OTHER -> [bar EXCEPT !.sent = m, !.by = by, !.ret = 0, !.nsent = @ + 1]

(***************************************************************************)
(* dshow::IEnumFilters and the iterator over it                            *)
(* (src/src/dshow/com_interfaces/ienumfilters.rs).                         *)
(***************************************************************************)
\* the HRESULTs the virtual table's Next answers with
S_OK == 0
S_FALSE == 1
E_FAIL == -2147467259

\* no enumerator yet: n filters are enumerated, pos of them were fetched; calls
\* are the HRESULTs of the calls of the virtual table's Next, items what the
\* iterator yielded, in order; ended whether next() returned None
NoEnum == [st |-> "none", n |-> 0, pos |-> 0, calls |-> <<>>, items |-> <<>>,
           ended |-> FALSE]

\* ole::privs::ok_to_hrresult: S_OK is Ok, any other HRESULT is Err of it
ok_to_hrresult(hr) == IF hr = S_OK THEN [ok |-> TRUE, hr |-> hr] ELSE [ok |-> FALSE, hr |-> hr]

\* the HRESULTs the virtual table's Next can answer with when asked for one
\* element: S_OK with the next filter, S_FALSE when none is left, or a failure
VtNext(e) == (IF e.pos < e.n THEN {S_OK} ELSE {S_FALSE}) \cup {E_FAIL}

Next_item_none(r, fetched) ==
    IF r.ok THEN [ok |-> TRUE, some |-> TRUE, item |-> fetched, hr |-> S_OK]
    ELSE [ok |-> TRUE, some |-> FALSE, item |-> 0, hr |-> r.hr]
\* dshow_IEnumFilters::Next, the virtual call having answered r and fetched the
\* filter numbered fetched: Ok(Some(filter)), Ok(None) for S_FALSE, Err(hr)
Next_item(r, fetched) ==
    IF r.ok THEN [ok |-> TRUE, some |-> TRUE, item |-> fetched, hr |-> S_OK]
    ELSE IF r.hr = S_FALSE THEN [ok |-> TRUE, some |-> FALSE, item |-> 0, hr |-> S_FALSE]
    ELSE [ok |-> FALSE, some |-> FALSE, item |-> 0, hr |-> r.hr]

\* Iterator::next of EnumFiltersIter for the result x of Next: Some(Err(err)),
\* Some(Ok(item)) or None
IterItem(x) ==
    IF ~x.ok THEN [some |-> TRUE, ok |-> FALSE, item |-> 0, hr |-> x.hr]
    ELSE IF x.some THEN [some |-> TRUE, ok |-> TRUE, item |-> x.item, hr |-> S_OK]
    ELSE [some |-> FALSE, ok |-> TRUE, item |-> 0, hr |-> S_OK]

(***************************************************************************)
(* LayoutArranger: the children registered with their rules, and the size  *)
(* of the parent known last.  The rectangles of the controls belong to the *)
(* substrate; a control that was destroyed cannot be moved.                *)
(***************************************************************************)
Controls == {HCHILD, HCHILD2}

Rect(x, y, w, h) == [x |-> x, y |-> y, w |-> w, h |-> h]
Size(w, h) == [w |-> w, h |-> h]

\* the rule of a child on one axis
Horz == {"Fixed", "Resized", "Repositioned"}
Vert == {"Fixed", "Resized", "Repositioned"}

\* the rectangle each control is created with
InitRects == [c \in Controls |-> Rect(c - 1, c, c, 1)]

\* WM_SIZE carries the new client area in lparam: width in the low half-word,
\* height in the high one
HalfBits == WordBits \div 2
LoWord(x) == x % Pow2(HalfBits)
HiWord(x) == (x \div Pow2(HalfBits)) % Pow2(HalfBits)
MakeLparam(sz) == sz.w + sz.h * Pow2(HalfBits)

\* the record of a rearrange call: the size it was given, the size known before
\* it, the rectangles before it, the children whose update it attempted, in
\* order, and what it returned
NoCall == [new |-> Size(0, 0), prev |-> Size(0, 0), before |-> InitRects,
           attempts |-> <<>>, ret |-> Ok]

\* LayoutArranger::new() and the controls as created
NoLayout == [children |-> <<>>, sz |-> Size(0, 0), rects |-> InitRects, dead |-> {},
             call |-> NoCall]

add_child_unchecked(la, hparent, hchild, horz, vert) ==
    [la |-> [la EXCEPT !.children =
                 Append(@, [hchild |-> hchild, horz |-> horz, vert |-> vert])],
     ret |-> Ok]
\* LayoutArranger::add_child(hparent, hchild, horz, vert): a child handle already
\* registered is rejected, else the child is appended with its rules
add_child(la, hparent, hchild, horz, vert) ==
    IF \E i \in DOMAIN la.children : la.children[i].hchild = hchild
    THEN [la |-> la, ret |-> Err("duplicate", hchild)]
    ELSE [la |-> [la EXCEPT !.children =
                     Append(@, [hchild |-> hchild, horz |-> horz, vert |-> vert])],
          ret |-> Ok]

MoveAxis_swapped(rule, origin, extent, d) ==
    CASE rule = "Resized"      -> [o |-> origin + d, e |-> extent]
      [] rule = "Repositioned" -> [o |-> origin, e |-> extent + d]
      [] OTHER                 -> [o |-> origin, e |-> extent]
\* one axis of a child under its rule, the parent having grown by d on that axis
MoveAxis(rule, origin, extent, d) ==
    CASE rule = "Resized"      -> [o |-> origin, e |-> extent + d]
      [] rule = "Repositioned" -> [o |-> origin + d, e |-> extent]
      [] OTHER                 -> [o |-> origin, e |-> extent]

\* the rectangle r of child c after the parent grew by (dw, dh)
Updated(c, r, dw, dh) ==
    LET hx == MoveAxis(c.horz, r.x, r.w, dw)
        vy == MoveAxis(c.vert, r.y, r.h, dh)
    IN  Rect(hx.o, vy.o, hx.e, vy.e)

\* the update of child c is attempted: it fails for a destroyed control, else the
\* control gets its new rectangle; the first failure is the one kept
UpdateChild(la, c, dw, dh) ==
    LET failed == c.hchild \in la.dead
    IN  [la EXCEPT !.call.attempts = Append(@, c.hchild),
                   !.rects[c.hchild] = IF failed THEN @ ELSE Updated(c, @, dw, dh),
                   !.call.ret = IF failed /\ @.ok THEN Err("update", c.hchild) ELSE @]

RECURSIVE RearrangeFrom_stops(_, _, _, _)
RearrangeFrom_stops(la, i, dw, dh) ==
    IF i > Len(la.children) \/ ~la.call.ret.ok THEN la
    ELSE RearrangeFrom_stops(UpdateChild(la, la.children[i], dw, dh), i + 1, dw, dh)
RECURSIVE RearrangeFrom(_, _, _, _)
\* the children from the i-th on are updated in registration order, all of them
RearrangeFrom(la, i, dw, dh) ==
    IF i > Len(la.children) THEN la
    ELSE RearrangeFrom(UpdateChild(la, la.children[i], dw, dh), i + 1, dw, dh)

rearrange_size_on_success(la, p) ==
    LET new == Size(LoWord(p.lparam), HiWord(p.lparam))
        la0 == [la EXCEPT !.call = [new |-> new, prev |-> la.sz, before |-> la.rects,
                                    attempts |-> <<>>, ret |-> Ok]]
        la1 == RearrangeFrom(la0, 1, new.w - la.sz.w, new.h - la.sz.h)
    IN  IF la1.call.ret.ok /\ la1.children # <<>> THEN [la1 EXCEPT !.sz = new] ELSE la1
\* LayoutArranger::rearrange(p): every child is updated by its rules and the
\* difference between the new size of the parent and the one known last, which
\* is replaced by the new one; the call returns the first failure, if any
rearrange(la, p) ==
    LET new == Size(LoWord(p.lparam), HiWord(p.lparam))
        la0 == [la EXCEPT !.call = [new |-> new, prev |-> la.sz, before |-> la.rects,
                                    attempts |-> <<>>, ret |-> Ok],
                          !.sz = new]
    IN  RearrangeFrom(la0, 1, new.w - la.sz.w, new.h - la.sz.h)

(***************************************************************************)
(* The two closures Base::new registers (default_message_handlers).        *)
(***************************************************************************)
\* layout_arranger.rearrange(&p)?; Ok(())
Rearranged(w, la) == [w |-> [w EXCEPT !.layout = la], ret |-> la.call.ret]
wm_size_handler(w, p) == Rearranged(w, rearrange(w.layout, p))

Reclaim_overwrite(w, p, ptr) ==
    LET b  == w.heap[ptr]
        w1 == [w EXCEPT !.heap[ptr] = [b EXCEPT !.st = "freed",
                                                !.invoked = @ + 1,
                                                !.freed = @ + 1,
                                                !.by = w.thread]]
        e  == Err("payload", ptr)
    IN  IF b.res = "err" THEN post_quit_error_last(Noted(w1, p, e), p, e) ELSE w1
Reclaim_result_dropped(w, p, ptr) ==
    [w EXCEPT !.heap[ptr] = [@ EXCEPT !.st = "freed", !.invoked = @ + 1, !.freed = @ + 1,
                                      !.by = w.thread]]
\* the boxed callback at ptr is reclaimed with Box::from_raw, called, and dropped
Reclaim(w, p, ptr) ==
    LET b  == w.heap[ptr]
        w1 == [w EXCEPT !.heap[ptr] = [b EXCEPT !.st = "freed",
                                                !.invoked = @ + 1,
                                                !.freed = @ + 1,
                                                !.by = w.thread]]
        e  == Err("payload", ptr)
    IN  IF b.res = "err" THEN post_quit_error(Noted(w1, p, e), p, e) ELSE w1

ui_thread_handler_leak(w, p) ==
    IF AsU32(p.wparam) = WM_UI_THREAD
    THEN LET ptr == p.lparam
         IN  [w |-> IF ptr \in DOMAIN w.heap /\ w.heap[ptr].st = "live"
                       THEN [w EXCEPT !.heap[ptr].invoked = @ + 1, !.heap[ptr].by = w.thread]
                       ELSE [w EXCEPT !.ub = TRUE],
              ret |-> Ok]
    ELSE [w |-> w, ret |-> Ok]
\* if co::WM(p.wparam as _) == Self::WM_UI_THREAD { Box::from_raw; pack()... } Ok(None)
ui_thread_handler(w, p) ==
    IF AsU32(p.wparam) = WM_UI_THREAD
    THEN LET ptr == p.lparam
         IN  [w |-> IF ptr \in DOMAIN w.heap /\ w.heap[ptr].st = "live"
                       THEN Reclaim(w, p, ptr)
                       ELSE [w EXCEPT !.ub = TRUE],
              ret |-> Ok]
    ELSE [w |-> w, ret |-> Ok]

\* HWND::GetAncestor(GA::ROOT) and (GA::ROOTOWNER): the top-level window of h
GetAncestor(h) ==
    CASE h = HCHILD -> [ok |-> hwnd # NULL, h |-> hwnd]
      [] h = NULL   -> [ok |-> FALSE, h |-> NULL]
      [] OTHER      -> [ok |-> TRUE, h |-> h]

\* HWND::GetAncestor(GA::ROOTOWNER): the owner chain is followed too, so for the
\* modal dialog the main window owns it is the main window
GetRootOwner(h) ==
    IF h = HMODAL THEN [ok |-> hwnd # NULL, h |-> hwnd] ELSE GetAncestor(h)

\* SendMessage of WM_UI_THREAD to a window of the calling thread: the window
\* procedure is called before SendMessage returns.  The closures of the privileged
\* table for WM_UI_THREAD run; the reserved id has no other closure than the one
\* Base::new registered, in either table.
SendMessage_same_thread(w, to, p) ==
    IF to = hwnd /\ to # NULL
       /\ \E i \in DOMAIN privileged_events :
             /\ privileged_events[i].msg_id = WM_UI_THREAD
             /\ privileged_events[i].func = UiThreadHandler
    THEN ui_thread_handler(
             [w EXCEPT !.inv = Append(@, [tbl |-> "privileged", kind |-> "ui_thread",
                                          hid |-> 0])], p).w
    ELSE w

run_ui_thread_in_handler_lost(w, res) ==
    [w EXCEPT !.heap[UiBox] = [NoBox EXCEPT !.st = "live", !.res = res,
                                            !.maker = "run_ui_thread"]]
\* run_ui_thread(func) called on the UI thread, from a handler, func returning res:
\* the closure is boxed and WM_UI_THREAD is sent to the root owner
run_ui_thread_in_handler(w, res) ==
    LET w1   == [w EXCEPT !.heap[UiBox] = [NoBox EXCEPT !.st = "live", !.res = res,
                                                        !.maker = "run_ui_thread"]]
        root == GetAncestor(hwnd)
        p    == WndMsg(WM_UI_THREAD, AsUsize(WM_UI_THREAD), UiBox)
    IN  IF root.ok THEN SendMessage_same_thread(w1, root.h, p) ELSE w1

\* the body of a closure registered through on() / privileged_on(): it returns Ok,
\* returns Err, calls PostQuitMessage(code), or calls run_ui_thread with a callback
\* that returns Ok ("post_ok") or Err ("post_err")
closure_body(h, w, p) ==
    CASE h.eff = "err"  -> [w |-> w, ret |-> Err("handler", h.hid)]
      [] h.eff = "quit" -> [w |-> PostQuitMessage(w, h.code), ret |-> Ok]
      [] h.eff \in {"post_ok", "post_err"} ->
            [w |-> run_ui_thread_in_handler(w, IF h.eff = "post_ok" THEN "ok" ELSE "err"),
             ret |-> Ok]
      [] OTHER          -> [w |-> w, ret |-> Ok]

\* one handler invoked for message p out of table tbl ("user" or "privileged")
Invoke(tbl, h, w, p) ==
    LET w1 == [w EXCEPT !.inv = Append(@, [tbl |-> tbl, kind |-> h.kind, hid |-> h.hid])]
    IN  CASE h.kind = "wm_size"   -> wm_size_handler(w1, p)
          [] h.kind = "ui_thread" -> ui_thread_handler(w1, p)
          [] OTHER                -> closure_body(h, w1, p)

(***************************************************************************)
(* WindowEventsAll: one list of (message id, closure) in insertion order.  *)
(***************************************************************************)
\* WindowEventsAll::wm(id, func) and its typed wrappers: the closure is appended
add_msg(events, msg_id, func) == Append(events, [msg_id |-> msg_id, func |-> func])

LastFor_any_id(events, msg_id) == Len(events)
\* index of the entry added last for msg_id, 0 when there is none
LastFor(events, msg_id) ==
    LET S == {i \in 1..Len(events) : events[i].msg_id = msg_id}
    IN  IF S = {} THEN 0 ELSE CHOOSE i \in S : \A j \in S : j <= i

\* process_one_message: the closure added last for the id runs, if there is one
process_one_message(tbl, events, w, p) ==
    LET i == LastFor(events, p.msg_id)
    IN  IF i = 0
        THEN [w |-> w, ret |-> Ok, handled |-> FALSE]
        ELSE LET r == Invoke(tbl, events[i].func, w, p)
             IN  [w |-> r.w, ret |-> r.ret, handled |-> r.ret.ok]

RECURSIVE ProcessFrom(_, _, _, _, _)
ProcessFrom(tbl, events, i, w, p) ==
    IF i > Len(events) THEN [w |-> w, ret |-> Ok]
    ELSE IF events[i].msg_id # p.msg_id THEN ProcessFrom(tbl, events, i + 1, w, p)
    ELSE LET r == Invoke(tbl, events[i].func, w, p)
         IN  IF r.ret.ok THEN ProcessFrom(tbl, events, i + 1, r.w, p) ELSE r

\* process_all_messages: every closure for the id runs, in insertion order; the
\* first error ends the call and is returned
process_all_messages(tbl, events, w, p) == ProcessFrom(tbl, events, 1, w, p)

(***************************************************************************)
(* Base: processing.                                                       *)
(***************************************************************************)
process_user_message_all(w, p) ==
    LET r == process_all_messages("user", user_events, w, p)
    IN  [w |-> r.w, ret |-> r.ret, handled |-> r.ret.ok /\ r.w.inv # w.inv]
\* self.user_events.process_one_message(wm_any)
process_user_message(w, p) == process_one_message("user", user_events, w, p)

process_privileged_messages_swallow(w, p) ==
    LET r == process_all_messages("privileged", privileged_events, w, p)
    IN  [w |-> r.w, ret |-> Ok]
process_privileged_messages_one(w, p) ==
    LET r == process_one_message("privileged", privileged_events, w, p)
    IN  [w |-> r.w, ret |-> r.ret]
\* self.privileged_events.process_all_messages(wm_any)
process_privileged_messages(w, p) ==
    process_all_messages("privileged", privileged_events, w, p)

default_message_handlers_size_only == add_msg(<<>>, WM_SIZE, WmSizeHandler)
\* what Base::new leaves in the privileged table (default_message_handlers)
default_message_handlers ==
    add_msg(add_msg(<<>>, WM_SIZE, WmSizeHandler), WM_UI_THREAD, UiThreadHandler)

(***************************************************************************)
(* Base::new and what every behaviour starts from.                         *)
(***************************************************************************)
\* the record of the last operation; for a retrieved quit, code is the exit code
\* PostQuitMessage was given and slot is QUIT_ERROR as the loop found it
Did(op, p, ret, handled, inv, steps, panic) ==
    [op |-> op, msg |-> p, ret |-> ret, handled |-> handled, inv |-> inv,
     steps |-> steps, panic |-> panic, code |-> 0, slot |-> None]
NoMsg == WndMsg(0, 0, 0)
Nothing == Did("new", NoMsg, Ok, FALSE, <<>>, <<>>, FALSE)

\* no accelerator table: run_main_loop(None)
NoAccel == {}

\* Base::new(is_dialog, parent): NULL handle, empty user table, the two default
\* closures in the privileged table
new(dlg, parent) ==
    /\ hwnd = NULL
    /\ is_dialog = dlg
    /\ parent_ptr = parent
    /\ user_events = <<>>
    /\ privileged_events = default_message_handlers

\* the rest of the process when a Base has just been constructed
Quiet ==
    /\ QUIT_ERROR = None
    /\ slot_access = {}
    /\ quit = NoQuit
    /\ heap = [a \in Boxes |-> NoBox]
    /\ ub = FALSE
    /\ queue = <<>>
    /\ sentq = <<>>
    /\ thr = [t \in Workers |-> "idle"]
    /\ thread_hwnd = [t \in Workers |-> NULL]
    /\ fails = <<>>
    /\ layout = NoLayout
    /\ owned = NoOwned
    /\ com = NoCom
    /\ pbm = NoPbm
    /\ enum_filters = NoEnum
    /\ last = Nothing
    /\ nposted = 0

\* a handler's changes to the process, written back after a call
Commit(w) ==
    /\ QUIT_ERROR' = w.QUIT_ERROR
    /\ slot_access' = w.slot_access
    /\ quit' = w.quit
    /\ heap' = w.heap
    /\ ub' = w.ub
    /\ fails' = w.fails
    /\ layout' = w.layout

(***************************************************************************)
(* SpecEvents: registration, creation, processing, clearing.               *)
(***************************************************************************)
\* message ids and closure bodies SpecEvents registers and processes
EvMsgIds == {WM_COMMAND, WM_SIZE}
EvEffects == {"ok", "err"}

InitEvents ==
    /\ \E dlg \in BOOLEAN : new(dlg, NoParent)
    /\ Quiet
    /\ haccel = NoAccel
    /\ loop_pc = "idle"
    /\ loop_result = Running
    /\ nreg = 0

on_unchecked(msg_id, eff) ==
    /\ nreg < MaxRegs
    /\ user_events' = add_msg(user_events, msg_id, Closure(nreg + 1, eff, 0))
    /\ nreg' = nreg + 1
    /\ last' = Did("on", NoMsg, Ok, FALSE, <<>>, <<>>, FALSE)
    /\ UNCHANGED privileged_events
\* self.on().wm(msg_id, closure): panics once the window exists, else appends
on(msg_id, eff) ==
    IF hwnd # NULL
    THEN /\ last' = Did("on", NoMsg, Err("UseAfterCreation", 0), FALSE, <<>>, <<>>, TRUE)
         /\ UNCHANGED <<user_events, privileged_events, nreg>>
    ELSE /\ nreg < MaxRegs
         /\ user_events' = add_msg(user_events, msg_id, Closure(nreg + 1, eff, 0))
         /\ nreg' = nreg + 1
         /\ last' = Did("on", NoMsg, Ok, FALSE, <<>>, <<>>, FALSE)
         /\ UNCHANGED privileged_events

\* self.privileged_on().wm(msg_id, closure): panics once the window exists, else appends
privileged_on(msg_id, eff) ==
    IF hwnd # NULL
    THEN /\ last' = Did("privileged_on", NoMsg, Err("UseAfterCreation", 0), FALSE, <<>>, <<>>, TRUE)
         /\ UNCHANGED <<user_events, privileged_events, nreg>>
    ELSE /\ nreg < MaxRegs
         /\ privileged_events' = add_msg(privileged_events, msg_id, Closure(nreg + 1, eff, 0))
         /\ nreg' = nreg + 1
         /\ last' = Did("privileged_on", NoMsg, Ok, FALSE, <<>>, <<>>, FALSE)
         /\ UNCHANGED user_events

\* self.hwnd = hwnd
set_hwnd(h) ==
    /\ hwnd' = h
    /\ last' = Did("set_hwnd", NoMsg, Ok, FALSE, <<>>, <<>>, FALSE)

\* the window procedure's call of process_user_message(wm_any)
ProcessUser(p) ==
    LET r == process_user_message(World(UI), p)
    IN  /\ Commit(r.w)
        /\ last' = Did("process_user_message", p, r.ret, r.handled, r.w.inv, <<>>, FALSE)

\* the window procedure's call of process_privileged_messages(wm_any)
ProcessPrivileged(p) ==
    LET r == process_privileged_messages(World(UI), p)
    IN  /\ Commit(r.w)
        /\ last' = Did("process_privileged_messages", p, r.ret, r.ret.ok, r.w.inv, <<>>, FALSE)

clear_events_keeps_defaults ==
    /\ user_events' = <<>>
    /\ privileged_events' = default_message_handlers
    /\ last' = Did("clear_events", NoMsg, Ok, FALSE, <<>>, <<>>, FALSE)
\* self.user_events.clear(); self.privileged_events.clear()
clear_events ==
    /\ user_events' = <<>>
    /\ privileged_events' = <<>>
    /\ last' = Did("clear_events", NoMsg, Ok, FALSE, <<>>, <<>>, FALSE)

EvFrame == <<queue, sentq, thr, thread_hwnd, haccel, loop_pc, loop_result, nposted,
             is_dialog, parent_ptr, owned, com, pbm, enum_filters>>

NextEvents ==
    \/ \E m \in EvMsgIds, e \in EvEffects :
          on(m, e) /\ UNCHANGED <<layout, hwnd, QUIT_ERROR, slot_access, quit, heap, ub, fails>> /\ UNCHANGED EvFrame
    \/ \E m \in EvMsgIds, e \in EvEffects :
          privileged_on(m, e) /\ UNCHANGED <<layout, hwnd, QUIT_ERROR, slot_access, quit, heap, ub, fails>> /\ UNCHANGED EvFrame
    \/ \E h \in {NULL, HMAIN} :
          set_hwnd(h)
          /\ UNCHANGED <<layout, user_events, privileged_events, nreg, QUIT_ERROR, slot_access, quit,
                         heap, ub, fails>>
          /\ UNCHANGED EvFrame
    \/ \E m \in EvMsgIds :
          ProcessUser(WndMsg(m, 0, 0))
          /\ UNCHANGED <<hwnd, user_events, privileged_events, nreg>> /\ UNCHANGED EvFrame
    \/ \E m \in EvMsgIds :
          ProcessPrivileged(WndMsg(m, 0, 0))
          /\ UNCHANGED <<hwnd, user_events, privileged_events, nreg>> /\ UNCHANGED EvFrame
    \/ clear_events
          /\ UNCHANGED <<layout, hwnd, nreg, QUIT_ERROR, slot_access, quit, heap, ub, fails>>
          /\ UNCHANGED EvFrame

SpecEvents == InitEvents /\ [][NextEvents]_vars

(***************************************************************************)
(* The substrate: windows, the window procedure, the loop's primitives.    *)
(***************************************************************************)
MSG(h, msg_id, wparam, lparam) ==
    [hwnd |-> h, msg_id |-> msg_id, wparam |-> wparam, lparam |-> lparam]

\* what the window procedure does with the result r of processing p out of one
\* table: an error goes to post_quit_error
Reported(r, p) ==
    IF r.ret.ok THEN r.w ELSE post_quit_error(Noted(r.w, p, r.ret), p, r.ret)

WndProc_user_first(w, p) ==
    Reported(process_privileged_messages(Reported(process_user_message(w, p), p), p), p)
\* the window procedure of the Base's window: all privileged closures, then the
\* one user closure; an error of either goes to post_quit_error
WndProc(w, p) ==
    Reported(process_user_message(Reported(process_privileged_messages(w, p), p), p), p)

\* the window procedure of window h runs for p: closures exist only for the
\* Base's own window, a child control handles its messages natively
Deliver(w, h, p) == IF h = hwnd /\ h # NULL THEN WndProc(w, p) ELSE w

\* TranslateAccelerator: a key of the table is turned into WM_COMMAND, which is
\* sent to the top-level window's procedure before the call returns
AccelMatches(acc, msg) == msg.msg_id = WM_KEYDOWN /\ msg.wparam \in acc
TranslateAccelerator(w, top, acc, msg) ==
    Deliver(w, top, WndMsg(WM_COMMAND, msg.wparam, 0))

\* IsDialogMessage: keyboard navigation keys are consumed and handled by the substrate
IsDialogMessage(msg) == msg.msg_id = WM_KEYDOWN /\ msg.wparam = VK_TAB

\* DispatchMessage: the target window's procedure runs
DispatchMessage(w, msg) == Deliver(w, msg.hwnd, WndMsg(msg.msg_id, msg.wparam, msg.lparam))

(***************************************************************************)
(* run_main_loop.                                                          *)
(***************************************************************************)
Step(name, consumed) == [step |-> name, consumed |-> consumed]

loop_body_no_continue(w, msg) ==
    LET top == IF GetAncestor(msg.hwnd).ok THEN GetAncestor(msg.hwnd).h ELSE msg.hwnd
        acc == haccel # NoAccel /\ AccelMatches(haccel, msg)
        w1  == IF acc THEN TranslateAccelerator(w, top, haccel, msg) ELSE w
        s1  == IF haccel # NoAccel THEN <<Step("accel", acc)>> ELSE <<>>
    IN  IF IsDialogMessage(msg)
        THEN [w |-> w1, steps |-> Append(s1, Step("dialog", TRUE))]
        ELSE [w |-> DispatchMessage(w1, msg),
              steps |-> s1 \o <<Step("dialog", FALSE), Step("dispatch", TRUE)>>]
loop_body_dialog_first(w, msg) ==
    LET top == IF GetAncestor(msg.hwnd).ok THEN GetAncestor(msg.hwnd).h ELSE msg.hwnd
    IN  IF IsDialogMessage(msg)
        THEN [w |-> w, steps |-> <<Step("dialog", TRUE)>>]
        ELSE IF haccel # NoAccel /\ AccelMatches(haccel, msg)
        THEN [w |-> TranslateAccelerator(w, top, haccel, msg),
              steps |-> <<Step("dialog", FALSE), Step("accel", TRUE)>>]
        ELSE [w |-> DispatchMessage(w, msg),
              steps |-> <<Step("dialog", FALSE)>>
                        \o (IF haccel # NoAccel THEN <<Step("accel", FALSE)>> ELSE <<>>)
                        \o <<Step("dispatch", TRUE)>>]
loop_body_modal_only(w, msg) ==
    LET top == IF GetAncestor(msg.hwnd).ok THEN GetAncestor(msg.hwnd).h ELSE msg.hwnd
        s1  == IF haccel # NoAccel
               THEN <<Step("accel", AccelMatches(haccel, msg))>> ELSE <<>>
    IN  IF haccel # NoAccel /\ AccelMatches(haccel, msg)
        THEN [w |-> TranslateAccelerator(w, top, haccel, msg), steps |-> s1]
        ELSE IF is_dialog /\ IsDialogMessage(msg)
        THEN [w |-> w, steps |-> Append(s1, Step("dialog", TRUE))]
        ELSE [w |-> DispatchMessage(w, msg),
              steps |-> s1 \o <<Step("dialog", FALSE), Step("dispatch", TRUE)>>]
\* one iteration for a retrieved non-quit message: accelerator, dialog, dispatch
loop_body(w, msg) ==
    LET top == IF GetAncestor(msg.hwnd).ok THEN GetAncestor(msg.hwnd).h ELSE msg.hwnd
        s1  == IF haccel # NoAccel
               THEN <<Step("accel", AccelMatches(haccel, msg))>> ELSE <<>>
    IN  IF haccel # NoAccel /\ AccelMatches(haccel, msg)
        THEN [w |-> TranslateAccelerator(w, top, haccel, msg), steps |-> s1]
        ELSE IF IsDialogMessage(msg)
        THEN [w |-> w, steps |-> Append(s1, Step("dialog", TRUE))]
        ELSE [w |-> DispatchMessage(w, msg),
              steps |-> s1 \o <<Step("dialog", FALSE), Step("dispatch", TRUE)>>]

quit_result_code_only(slot, wParam) == Exit(AsI32(wParam))
\* match QUIT_ERROR.take() { Some(e) => Err(e), None => Ok(msg.wParam as _) }
quit_result(slot, wParam) ==
    IF slot.some THEN Failed(slot) ELSE Exit(AsI32(wParam))

Iterate_exits_on_quit ==
    /\ loop_pc = "running"
    /\ sentq = <<>>
    /\ queue # <<>>
    /\ LET msg == Head(queue)
           r   == loop_body(World(UI), msg)
       IN  /\ Commit(r.w)
           /\ last' = Did("iterate", msg, Ok, TRUE, r.w.inv, r.steps, FALSE)
           /\ loop_pc' = IF r.w.quit.set THEN "returned" ELSE loop_pc
           /\ loop_result' = IF r.w.quit.set
                             THEN quit_result(r.w.QUIT_ERROR, r.w.quit.wParam)
                             ELSE loop_result
    /\ queue' = Tail(queue)
    /\ UNCHANGED <<hwnd, is_dialog, parent_ptr, owned, com, pbm, enum_filters, user_events, privileged_events, sentq, thr,
                   thread_hwnd, haccel, nreg, nposted>>
\* GetMessage returns a posted message; the body of the loop runs for it
Iterate ==
    /\ loop_pc = "running"
    /\ sentq = <<>>
    /\ queue # <<>>
    /\ LET msg == Head(queue)
           r   == loop_body(World(UI), msg)
       IN  /\ Commit(r.w)
           /\ last' = Did("iterate", msg, Ok, TRUE, r.w.inv, r.steps, FALSE)
    /\ queue' = Tail(queue)
    /\ UNCHANGED <<hwnd, is_dialog, parent_ptr, owned, com, pbm, enum_filters, user_events, privileged_events, sentq, thr,
                   thread_hwnd, haccel, loop_pc, loop_result, nreg, nposted>>

RetrieveQuit_abandons ==
    /\ loop_pc = "running"
    /\ quit.set
    /\ loop_result' = quit_result(QUIT_ERROR, quit.wParam)
    /\ QUIT_ERROR' = None
    /\ slot_access' = slot_access \cup {Access(UI, "take")}
    /\ quit' = NoQuit
    /\ loop_pc' = "returned"
    /\ last' = [Did("quit", MSG(NULL, WM_QUIT, quit.wParam, 0), Ok, FALSE, <<>>, <<>>, FALSE)
                   EXCEPT !.code = quit.code, !.slot = QUIT_ERROR]
    /\ UNCHANGED <<layout, hwnd, is_dialog, parent_ptr, owned, com, pbm, enum_filters, user_events, privileged_events, heap, ub, queue, sentq,
                   thr, thread_hwnd, haccel, fails, nreg, nposted>>
\* GetMessage returns false: WM_QUIT, generated once nothing else is pending
RetrieveQuit ==
    /\ loop_pc = "running"
    /\ sentq = <<>>
    /\ queue = <<>>
    /\ quit.set
    /\ loop_result' = quit_result(QUIT_ERROR, quit.wParam)
    /\ QUIT_ERROR' = None
    /\ slot_access' = slot_access \cup {Access(UI, "take")}
    /\ quit' = NoQuit
    /\ loop_pc' = "returned"
    /\ last' = [Did("quit", MSG(NULL, WM_QUIT, quit.wParam, 0), Ok, FALSE, <<>>, <<>>, FALSE)
                   EXCEPT !.code = quit.code, !.slot = QUIT_ERROR]
    /\ UNCHANGED <<layout, hwnd, is_dialog, parent_ptr, owned, com, pbm, enum_filters, user_events, privileged_events, heap, ub, queue, sentq,
                   thr, thread_hwnd, haccel, fails, nreg, nposted>>

RetrievalFails_takes_slot ==
    /\ loop_pc = "running"
    /\ loop_result' = RetrievalError
    /\ QUIT_ERROR' = None
    /\ slot_access' = slot_access \cup {Access(UI, "take")}
    /\ loop_pc' = "returned"
    /\ UNCHANGED <<layout, hwnd, is_dialog, parent_ptr, owned, com, pbm, enum_filters, user_events, privileged_events, quit, heap, ub, queue,
                   sentq, thr, thread_hwnd, haccel, last, fails, nreg, nposted>>
\* GetMessage fails: the `?` returns the error at once
RetrievalFails ==
    /\ loop_pc = "running"
    /\ loop_result' = RetrievalError
    /\ loop_pc' = "returned"
    /\ UNCHANGED <<layout, hwnd, is_dialog, parent_ptr, owned, com, pbm, enum_filters, user_events, privileged_events, QUIT_ERROR, slot_access,
                   quit,
                   heap, ub, queue, sentq, thr, thread_hwnd, haccel, last, fails, nreg,
                   nposted>>

DeliverSent_through_steps ==
    /\ loop_pc = "running"
    /\ sentq # <<>>
    /\ LET s == Head(sentq)
           w == IF haccel # NoAccel \/ is_dialog
                THEN World(UI) ELSE Deliver(World(UI), s.to, s.msg)
       IN  /\ Commit(w)
           /\ thr' = [thr EXCEPT ![s.from] = "done"]
    /\ sentq' = Tail(sentq)
    /\ UNCHANGED <<hwnd, is_dialog, parent_ptr, owned, com, pbm, enum_filters, user_events, privileged_events, queue, thread_hwnd,
                   haccel, loop_pc, loop_result, last, nreg, nposted>>
\* inside GetMessage, a message sent from another thread is processed on the UI
\* thread; the sender's SendMessage then returns
DeliverSent ==
    /\ loop_pc = "running"
    /\ sentq # <<>>
    /\ LET s == Head(sentq)
           w == Deliver(World(UI), s.to, s.msg)
       IN  /\ Commit(w)
           /\ thr' = [thr EXCEPT ![s.from] = "done"]
    /\ sentq' = Tail(sentq)
    /\ UNCHANGED <<hwnd, is_dialog, parent_ptr, owned, com, pbm, enum_filters, user_events, privileged_events, queue, thread_hwnd,
                   haccel, loop_pc, loop_result, last, nreg, nposted>>

(***************************************************************************)
(* Other threads and the substrate's input.                                *)
(***************************************************************************)
SendMessage_returns_at_once(t, to, p) ==
    /\ sentq' = Append(sentq, [from |-> t, to |-> to, msg |-> p])
    /\ thr' = [thr EXCEPT ![t] = "done"]
\* cross-thread SendMessage: the message waits for the receiver, the sender blocks
SendMessage(t, to, p) ==
    /\ sentq' = Append(sentq, [from |-> t, to |-> to, msg |-> p])
    /\ thr' = [thr EXCEPT ![t] = "sending"]

run_ui_thread_runs_unsent(t, res) ==
    /\ thr[t] = "idle"
    /\ LET root == GetAncestor(hwnd)
           p == WndMsg(WM_UI_THREAD, AsUsize(WM_UI_THREAD), t)
           b == [NoBox EXCEPT !.res = res, !.maker = "run_ui_thread"]
       IN  IF root.ok
           THEN /\ heap' = [heap EXCEPT ![t] = [b EXCEPT !.st = "live"]]
                /\ SendMessage(t, root.h, p)
           ELSE /\ heap' = [heap EXCEPT ![t] = [b EXCEPT !.st = "freed", !.invoked = 1,
                                                          !.freed = 1, !.by = t]]
                /\ thr' = [thr EXCEPT ![t] = "done"]
                /\ UNCHANGED sentq
run_ui_thread_untagged(t, res) ==
    /\ thr[t] = "idle"
    /\ heap' = [heap EXCEPT ![t] = [NoBox EXCEPT !.st = "live", !.res = res,
                                                 !.maker = "run_ui_thread"]]
    /\ LET root == GetAncestor(hwnd)
           p == WndMsg(WM_UI_THREAD, 0, t)
       IN  IF root.ok
           THEN SendMessage(t, root.h, p)
           ELSE /\ thr' = [thr EXCEPT ![t] = "done"]
                /\ UNCHANGED sentq
\* worker thread t calls run_ui_thread(func), func returning res: the closure is
\* boxed, Box::into_raw gives its address, and WM_UI_THREAD goes to the root owner
run_ui_thread(t, res) ==
    /\ thr[t] = "idle"
    /\ heap' = [heap EXCEPT ![t] = [NoBox EXCEPT !.st = "live", !.res = res,
                                                 !.maker = "run_ui_thread"]]
    /\ LET root == GetAncestor(hwnd)
           p == WndMsg(WM_UI_THREAD, AsUsize(WM_UI_THREAD), t)
       IN  IF root.ok
           THEN SendMessage(t, root.h, p)
           ELSE /\ thr' = [thr EXCEPT ![t] = "done"]
                /\ UNCHANGED sentq

\* what spawn_new_thread and the thread it starts leave alone
SpawnFrame == <<layout, hwnd, is_dialog, parent_ptr, owned, com, pbm, enum_filters, user_events, privileged_events, QUIT_ERROR, slot_access,
                quit, ub, queue, haccel, loop_pc, loop_result, last, fails, nreg, nposted>>

\* spawn_new_thread(func): thread t is started with a raw copy of the handle
spawn_new_thread(t) ==
    /\ thr[t] = "idle"
    /\ thread_hwnd' = [thread_hwnd EXCEPT ![t] = hwnd]
    /\ thr' = [thr EXCEPT ![t] = "spawned"]
    /\ UNCHANGED <<heap, sentq>>
    /\ UNCHANGED SpawnFrame

spawned_thread_reports_here(t, res) ==
    /\ thr[t] = "spawned"
    /\ thr' = [thr EXCEPT ![t] = "done"]
    /\ IF res = "ok"
       THEN UNCHANGED <<QUIT_ERROR, slot_access>>
       ELSE /\ QUIT_ERROR' = IF QUIT_ERROR.some THEN QUIT_ERROR
                             ELSE MsgError(WndMsg(WM_UI_THREAD, 0, 0), Err("payload", t))
            /\ slot_access' = slot_access \cup {Access(t, "set")}
    /\ UNCHANGED <<layout, hwnd, is_dialog, parent_ptr, owned, com, pbm, enum_filters, user_events, privileged_events, quit, heap, ub, queue,
                   sentq, thread_hwnd, haccel, loop_pc, loop_result, last, fails, nreg,
                   nposted>>
spawned_thread_posts_always(t, res) ==
    /\ thr[t] = "spawned"
    /\ heap' = [heap EXCEPT ![t] = [NoBox EXCEPT !.st = "live", !.res = res,
                                                 !.maker = "spawn_new_thread"]]
    /\ LET root == GetAncestor(thread_hwnd[t])
           p == WndMsg(WM_UI_THREAD, AsUsize(WM_UI_THREAD), t)
       IN  IF root.ok
           THEN SendMessage(t, root.h, p)
           ELSE /\ thr' = [thr EXCEPT ![t] = "done"]
                /\ UNCHANGED sentq
    /\ UNCHANGED thread_hwnd
    /\ UNCHANGED SpawnFrame
spawned_thread_drops(t, res) ==
    /\ thr[t] = "spawned"
    /\ IF res = "ok"
       THEN /\ thr' = [thr EXCEPT ![t] = "done"]
            /\ UNCHANGED <<heap, sentq>>
       ELSE LET root == GetAncestor(thread_hwnd[t])
                p == WndMsg(WM_UI_THREAD, AsUsize(WM_UI_THREAD), t)
                b == [NoBox EXCEPT !.res = "err", !.maker = "spawn_new_thread"]
            IN  IF root.ok
                THEN /\ heap' = [heap EXCEPT ![t] = [b EXCEPT !.st = "live"]]
                     /\ SendMessage(t, root.h, p)
                ELSE /\ heap' = [heap EXCEPT ![t] = [b EXCEPT !.st = "freed", !.freed = 1,
                                                               !.by = t]]
                     /\ thr' = [thr EXCEPT ![t] = "done"]
                     /\ UNCHANGED sentq
    /\ UNCHANGED thread_hwnd
    /\ UNCHANGED SpawnFrame
\* the body of the spawned thread t, func() returning res: nothing more on Ok; an
\* error is boxed as `|| Err(err)` and WM_UI_THREAD goes to the root owner of the
\* handle the thread was given
spawned_thread(t, res) ==
    /\ thr[t] = "spawned"
    /\ IF res = "ok"
       THEN /\ thr' = [thr EXCEPT ![t] = "done"]
            /\ UNCHANGED <<heap, sentq>>
       ELSE /\ heap' = [heap EXCEPT ![t] = [NoBox EXCEPT !.st = "live", !.res = "err",
                                                         !.maker = "spawn_new_thread"]]
            /\ LET root == GetAncestor(thread_hwnd[t])
                   p == WndMsg(WM_UI_THREAD, AsUsize(WM_UI_THREAD), t)
               IN  IF root.ok
                   THEN SendMessage(t, root.h, p)
                   ELSE /\ thr' = [thr EXCEPT ![t] = "done"]
                        /\ UNCHANGED sentq
    /\ UNCHANGED thread_hwnd
    /\ UNCHANGED SpawnFrame

\* input the substrate posts to the UI thread's queue
Inputs ==
    { MSG(HCHILD, WM_KEYDOWN, VK_TAB, 0),
      MSG(HMAIN, WM_KEYDOWN, VK_F5, 0) }

OsPost(m) ==
    /\ loop_pc = "running"
    /\ nposted < MaxPosted
    /\ queue' = Append(queue, m)
    /\ nposted' = nposted + 1
    /\ UNCHANGED <<layout, hwnd, is_dialog, parent_ptr, owned, com, pbm, enum_filters, user_events, privileged_events, QUIT_ERROR, slot_access,
                   quit,
                   heap, ub, sentq, thr, thread_hwnd, haccel, loop_pc, loop_result, last,
                   fails, nreg>>

(***************************************************************************)
(* Spec: a created window, its loop running.                               *)
(***************************************************************************)
\* what is registered before the window is created
RegBodies == { [eff |-> "ok", code |-> 0], [eff |-> "err", code |-> 0],
               [eff |-> "quit", code |-> 5], [eff |-> "quit", code |-> -1] }
Regs == [tbl : {"user"}, msg_id : {WM_COMMAND}, body : RegBodies]
        \cup [tbl : {"privileged"}, msg_id : {WM_KEYDOWN}, body : RegBodies]
RegSeqs == UNION { [1..k -> Regs] : k \in 0..MaxInitRegs }

RECURSIVE Registered(_, _, _)
\* the table tbl after the registrations rs[i..], made through on() / privileged_on()
Registered(tbl, rs, i) ==
    IF i = 0 THEN (IF tbl = "user" THEN <<>> ELSE default_message_handlers)
    ELSE IF rs[i].tbl # tbl THEN Registered(tbl, rs, i - 1)
    ELSE add_msg(Registered(tbl, rs, i - 1), rs[i].msg_id,
                 Closure(i, rs[i].body.eff, rs[i].body.code))

AccelTables == {NoAccel, {VK_TAB}}

Init ==
    /\ \E dlg \in BOOLEAN : is_dialog = dlg
    /\ parent_ptr = NoParent
    /\ hwnd = HMAIN
    /\ \E rs \in RegSeqs :
          /\ user_events = Registered("user", rs, Len(rs))
          /\ privileged_events = Registered("privileged", rs, Len(rs))
          /\ nreg = Len(rs)
    /\ Quiet
    /\ haccel \in AccelTables
    /\ loop_pc = "running"
    /\ loop_result = Running

Next ==
    \/ Iterate
    \/ RetrieveQuit
    \/ RetrievalFails
    \/ DeliverSent
    \/ \E m \in Inputs : OsPost(m)
    \/ \E t \in Workers, res \in {"ok", "err"} :
          /\ loop_pc = "running"
          /\ run_ui_thread(t, res)
          /\ UNCHANGED <<layout, hwnd, is_dialog, parent_ptr, owned, com, pbm, enum_filters, user_events, privileged_events, QUIT_ERROR, slot_access,
                   quit,
                         ub, queue, thread_hwnd, haccel, loop_pc, loop_result, last, fails,
                         nreg, nposted>>

Spec == Init /\ [][Next]_vars

\* SpecLive: the created window of Spec with the UI thread running.  run_main_loop
\* is a loop on one thread, so a retrieval that can return does return, and a
\* message sent to the thread is processed while it waits in GetMessage.
\* the retrieval part of Iterate and of DeliverSent: GetMessage takes the head of
\* the posted queue, or processes the sent message that waits first
GetMessage_posted ==
    loop_pc = "running" /\ sentq = <<>> /\ queue # <<>> /\ queue' = Tail(queue)
GetMessage_sent ==
    loop_pc = "running" /\ sentq # <<>> /\ sentq' = Tail(sentq)

\* one registration made before the window is created, or none
LiveRegs == {<<>>} \cup { <<r>> : r \in Regs }

InitLive ==
    /\ is_dialog = FALSE
    /\ parent_ptr = NoParent
    /\ hwnd = HMAIN
    /\ \E rs \in LiveRegs :
          /\ user_events = Registered("user", rs, Len(rs))
          /\ privileged_events = Registered("privileged", rs, Len(rs))
          /\ nreg = Len(rs)
    /\ Quiet
    /\ haccel \in AccelTables
    /\ loop_pc = "running"
    /\ loop_result = Running

SpecLive ==
    /\ InitLive /\ [][Next]_vars
    /\ WF_queue(GetMessage_posted)
    /\ WF_sentq(GetMessage_sent)
    /\ WF_vars(RetrieveQuit)

(***************************************************************************)
(* SpecPost: a Base from construction on, with threads that call           *)
(* run_ui_thread and spawn_new_thread before and after the window exists,  *)
(* and handlers that call run_ui_thread on the UI thread.                  *)
(***************************************************************************)
\* the user closure for WM_COMMAND registered before creation, if any
PostRegs == {<<>>}
            \cup { <<[tbl |-> "user", msg_id |-> WM_COMMAND, body |-> [eff |-> e, code |-> 0]]>> :
                      e \in {"post_ok", "post_err"} }

InitPost ==
    /\ hwnd = NULL
    /\ is_dialog = FALSE
    /\ parent_ptr = NoParent
    /\ \E rs \in PostRegs :
          /\ user_events = Registered("user", rs, Len(rs))
          /\ nreg = Len(rs)
    /\ privileged_events = default_message_handlers
    /\ Quiet
    /\ haccel = NoAccel
    /\ loop_pc = "idle"
    /\ loop_result = Running

\* the window is created: its handle is stored with set_hwnd
CreateWindow ==
    /\ hwnd = NULL
    /\ loop_pc = "idle"
    /\ set_hwnd(HMAIN)
    /\ UNCHANGED <<layout, is_dialog, parent_ptr, owned, com, pbm, enum_filters, user_events, privileged_events, QUIT_ERROR, slot_access, quit,
                   heap, ub, queue, sentq, thr, thread_hwnd, haccel, loop_pc, loop_result,
                   fails, nreg, nposted>>

\* run_main_loop is called once the window exists
EnterLoop ==
    /\ hwnd # NULL
    /\ loop_pc = "idle"
    /\ loop_pc' = "running"
    /\ UNCHANGED <<layout, hwnd, is_dialog, parent_ptr, owned, com, pbm, enum_filters, user_events, privileged_events, QUIT_ERROR, slot_access,
                   quit, heap, ub, queue, sentq, thr, thread_hwnd, haccel, loop_result, last,
                   fails, nreg, nposted>>

\* menu commands the substrate posts to the window
PostInputs == { MSG(HMAIN, WM_COMMAND, 0, 0) }

PostInput(m) ==
    /\ hwnd # NULL
    /\ loop_pc # "returned"
    /\ nposted < MaxInputs
    /\ queue' = Append(queue, m)
    /\ nposted' = nposted + 1
    /\ UNCHANGED <<layout, hwnd, is_dialog, parent_ptr, owned, com, pbm, enum_filters, user_events, privileged_events, QUIT_ERROR, slot_access,
                   quit, heap, ub, sentq, thr, thread_hwnd, haccel, loop_pc, loop_result, last,
                   fails, nreg>>

NextPost ==
    \/ CreateWindow
    \/ EnterLoop
    \/ Iterate
    \/ RetrieveQuit
    \/ DeliverSent
    \/ \E m \in PostInputs : PostInput(m)
    \/ \E t \in Workers, res \in {"ok", "err"} :
          /\ loop_pc # "returned"
          /\ run_ui_thread(t, res)
          /\ UNCHANGED thread_hwnd
          /\ UNCHANGED SpawnFrame
    \/ \E t \in Workers : loop_pc # "returned" /\ spawn_new_thread(t)
    \/ \E t \in Workers, res \in {"ok", "err"} : loop_pc # "returned" /\ spawned_thread(t, res)

SpecPost == InitPost /\ [][NextPost]_vars

(***************************************************************************)
(* SpecForged: threads that call run_ui_thread, and code outside Base that *)
(* posts messages with the reserved id but another tag.                    *)
(***************************************************************************)
\* tags (wparam, pointer wide) that are not the reserved identifier: none, another
\* message id, and one that differs from it above the low 32 bits only
ForeignTags == {0, WM_UI_THREAD + 1, WM_UI_THREAD + Pow2(WordBits)}
\* such a message; its lparam is an address a box may be at
ForeignMsgs == { MSG(HMAIN, WM_UI_THREAD, tag, 1) : tag \in ForeignTags }

NextForged ==
    \/ CreateWindow
    \/ EnterLoop
    \/ Iterate
    \/ RetrieveQuit
    \/ DeliverSent
    \/ \E m \in ForeignMsgs : PostInput(m)
    \/ \E t \in Workers, res \in {"ok", "err"} :
          /\ loop_pc # "returned"
          /\ run_ui_thread(t, res)
          /\ UNCHANGED thread_hwnd
          /\ UNCHANGED SpawnFrame

SpecForged == InitPost /\ [][NextForged]_vars

(***************************************************************************)
(* SpecProc: registrations into both tables, creation, and the window      *)
(* procedure called by the substrate for messages of the registered ids.   *)
(***************************************************************************)
\* the substrate calls the window procedure of the created window for message p
WindowProc(p) ==
    /\ hwnd # NULL
    /\ nposted < MaxInputs
    /\ LET w == Deliver(World(UI), hwnd, p)
       IN  /\ Commit(w)
           /\ last' = Did("wndproc", p, Ok, TRUE, w.inv, <<>>, FALSE)
    /\ nposted' = nposted + 1
    /\ UNCHANGED <<hwnd, is_dialog, parent_ptr, owned, com, pbm, enum_filters, user_events, privileged_events, queue, sentq, thr,
                   thread_hwnd, haccel, loop_pc, loop_result, nreg>>

NextProc ==
    \/ \E m \in EvMsgIds, e \in EvEffects :
          on(m, e) /\ UNCHANGED <<layout, hwnd, QUIT_ERROR, slot_access, quit, heap, ub, fails>>
                   /\ UNCHANGED EvFrame
    \/ \E m \in EvMsgIds, e \in EvEffects :
          privileged_on(m, e)
          /\ UNCHANGED <<layout, hwnd, QUIT_ERROR, slot_access, quit, heap, ub, fails>>
          /\ UNCHANGED EvFrame
    \/ CreateWindow
    \/ \E m \in EvMsgIds : WindowProc(WndMsg(m, 0, 0))

SpecProc == InitEvents /\ [][NextProc]_vars

(***************************************************************************)
(* SpecLayout: children are added to the layout arranger before and after  *)
(* the window is created, the window is resized, controls are destroyed.   *)
(***************************************************************************)
\* what the layout operations leave alone
LayoutFrame == <<hwnd, is_dialog, parent_ptr, owned, com, pbm, enum_filters, user_events, privileged_events, QUIT_ERROR, slot_access,
                 quit, heap, ub, queue, sentq, thr, thread_hwnd, haccel, loop_pc,
                 loop_result, fails, nreg, nposted>>

\* self.layout_arranger.add_child(&self.hwnd, hchild, horz, vert)?; Ok(())
add_to_layout_arranger(hchild, horz, vert) ==
    /\ LET r == add_child(layout, hwnd, hchild, horz, vert)
       IN  /\ layout' = r.la
           /\ last' = Did("add_to_layout_arranger", NoMsg, r.ret, r.ret.ok, <<>>, <<>>, FALSE)
    /\ UNCHANGED LayoutFrame

\* a control is destroyed: its handle no longer names a window
DestroyControl(c) ==
    /\ c \notin layout.dead
    /\ layout' = [layout EXCEPT !.dead = @ \cup {c}]
    /\ UNCHANGED last
    /\ UNCHANGED LayoutFrame

\* the client areas the parent window is resized to
ParentSizes == { Size(1, 1), Size(3, 1), Size(3, 2) }

\* the rules children are registered with: each rule occurs on each axis
LayoutRules == { <<"Resized", "Fixed">>, <<"Repositioned", "Repositioned">>,
                 <<"Fixed", "Resized">> }

InitLayout ==
    /\ new(FALSE, NoParent)
    /\ Quiet
    /\ haccel = NoAccel
    /\ loop_pc = "idle"
    /\ loop_result = Running
    /\ nreg = 0

NextLayout ==
    \/ \E c \in Controls, r \in LayoutRules : add_to_layout_arranger(c, r[1], r[2])
    \/ \E c \in Controls : DestroyControl(c)
    \/ CreateWindow
    \/ \E sz \in ParentSizes : WindowProc(WndMsg(WM_SIZE, 0, MakeLparam(sz)))

SpecLayout == InitLayout /\ [][NextLayout]_vars

(***************************************************************************)
(* SpecCom: an IUnknown wrapper is made from a COM pointer, AddRef and     *)
(* Release are called on it, it is dropped; other holders of the COM       *)
(* object release the references they own.                                 *)
(***************************************************************************)
ComFrame == <<hwnd, is_dialog, parent_ptr, owned, pbm, enum_filters, user_events, privileged_events, QUIT_ERROR, slot_access,
              quit, heap, ub, layout, queue, sentq, thr, thread_hwnd, haccel, loop_pc,
              loop_result, last, fails, nreg, nposted>>

\* IUnknown::from(ppv): the wrapper takes over one reference of an object of
\* which other holders own k more
From(k) ==
    /\ com.st = "none"
    /\ com' = [NoCom EXCEPT !.st = "live", !.vtbl = PPV, !.refs = k + 1, !.others = k]
    /\ UNCHANGED ComFrame

\* unsafe IUnknown::AddRef(&self): the virtual call, on a live object
AddRef ==
    /\ com.st = "live" /\ com.vtbl # NULL
    /\ com.refs > 0 /\ com.refs < MaxRefs
    /\ com' = [com EXCEPT !.refs = @ + 1]
    /\ UNCHANGED ComFrame

\* an explicit call of IUnknown::Release
CallRelease ==
    /\ com.st = "live"
    /\ com.nrel < MaxReleases
    /\ \E refCount \in VtblRelease(com) : com' = Release(com, refCount)
    /\ UNCHANGED ComFrame

\* Drop for IUnknown: self.Release()
drop ==
    /\ com.st = "live"
    /\ \E refCount \in VtblRelease(com) :
          com' = [Release(com, refCount) EXCEPT !.st = "dropped"]
    /\ UNCHANGED ComFrame

\* another holder releases a reference it owns
OtherRelease ==
    /\ com.st # "none"
    /\ com.others > 0 /\ com.refs > 0
    /\ com' = [com EXCEPT !.refs = @ - 1, !.others = @ - 1]
    /\ UNCHANGED ComFrame

InitCom == InitLayout

NextCom ==
    \/ \E k \in 0..(MaxRefs - 1) : From(k)
    \/ AddRef
    \/ CallRelease
    \/ drop
    \/ OtherRelease

SpecCom == InitCom /\ [][NextCom]_vars

(***************************************************************************)
(* SpecPbm: GetStep and SetStep messages are sent to a progress bar.       *)
(***************************************************************************)
PbmFrame == <<hwnd, is_dialog, parent_ptr, owned, com, enum_filters, user_events, privileged_events,
              QUIT_ERROR, slot_access, quit, heap, ub, layout, queue, sentq, thr,
              thread_hwnd, haccel, loop_pc, loop_result, last, fails, nreg, nposted>>

\* the step increments a SetStep struct is given
Steps == {0, 1, 2, 5, DefaultStep}

\* hwnd.SendMessage(pbm::SetStep { step })
SendSetStep(step) ==
    /\ pbm.nsent < MaxSends
    /\ pbm' = ProgressBarProc(pbm, "SetStep", SetStep_as_generic_wm(step))
    /\ UNCHANGED PbmFrame

\* hwnd.SendMessage(pbm::GetStep {})
SendGetStep ==
    /\ pbm.nsent < MaxSends
    /\ pbm' = ProgressBarProc(pbm, "GetStep", GetStep_as_generic_wm)
    /\ UNCHANGED PbmFrame

InitPbm == InitLayout

NextPbm ==
    \/ \E step \in Steps : SendSetStep(step)
    \/ SendGetStep

SpecPbm == InitPbm /\ [][NextPbm]_vars

(***************************************************************************)
(* SpecEnum: an iterator over an IEnumFilters is advanced.                 *)
(***************************************************************************)
EnumFrame == <<hwnd, is_dialog, parent_ptr, owned, com, pbm, user_events, privileged_events,
               QUIT_ERROR, slot_access, quit, heap, ub, layout, queue, sentq, thr,
               thread_hwnd, haccel, loop_pc, loop_result, last, fails, nreg, nposted>>

\* filters.iter() on an enumerator of n filters: EnumFiltersIter::new
iter(n) ==
    /\ enum_filters.st = "none"
    /\ enum_filters' = [NoEnum EXCEPT !.st = "iterating", !.n = n]
    /\ UNCHANGED EnumFrame

\* the failures among the calls made so far
Failures(e) == {i \in DOMAIN e.calls : e.calls[i] \notin {S_OK, S_FALSE}}

\* what one call of Iterator::next leaves, the virtual call answering hr
Advanced(e, hr) ==
    [e EXCEPT !.calls = Append(@, hr),
              !.pos = IF hr = S_OK THEN @ + 1 ELSE @,
              !.items = IF IterItem(Next_item(ok_to_hrresult(hr), e.pos + 1)).some
                        THEN Append(@, IterItem(Next_item(ok_to_hrresult(hr), e.pos + 1)))
                        ELSE @,
              !.ended = ~IterItem(Next_item(ok_to_hrresult(hr), e.pos + 1)).some]

\* Iterator::next, called by a for loop until it returns None
next ==
    /\ enum_filters.st = "iterating"
    /\ ~enum_filters.ended
    /\ \E hr \in VtNext(enum_filters) :
          /\ hr = E_FAIL => Cardinality(Failures(enum_filters)) < MaxErrors
          /\ enum_filters' = Advanced(enum_filters, hr)
    /\ UNCHANGED EnumFrame

InitEnum == InitLayout

NextEnum ==
    \/ \E n \in 0..MaxFilters : iter(n)
    \/ next

SpecEnum == InitEnum /\ [][NextEnum]_vars

(***************************************************************************)
(* SpecDefaults: a Base from its construction on, with registrations, its   *)
(* creation, clear_events at any moment, resizes and worker threads that   *)
(* call run_ui_thread while the loop runs.                                 *)
(***************************************************************************)
\* the resizes the substrate posts to the window
ResizeInputs == { MSG(HMAIN, WM_SIZE, 0, MakeLparam(Size(3, 2))) }

NextDefaults ==
    \/ /\ loop_pc = "idle"
       /\ on(WM_UI_THREAD, "ok")
          /\ UNCHANGED <<layout, hwnd, QUIT_ERROR, slot_access, quit, heap, ub, fails>>
          /\ UNCHANGED EvFrame
    \/ \E m \in {WM_SIZE, WM_UI_THREAD} :
          /\ loop_pc = "idle"
          /\ privileged_on(m, "ok")
          /\ UNCHANGED <<layout, hwnd, QUIT_ERROR, slot_access, quit, heap, ub, fails>>
          /\ UNCHANGED EvFrame
    \/ CreateWindow
    \/ EnterLoop
    \/ clear_events
          /\ UNCHANGED <<layout, hwnd, nreg, QUIT_ERROR, slot_access, quit, heap, ub, fails>>
          /\ UNCHANGED EvFrame
    \/ \E m \in ResizeInputs : PostInput(m)
    \/ Iterate
    \/ DeliverSent
    \/ \E t \in Workers :
          /\ loop_pc = "running"
          /\ run_ui_thread(t, "ok")
          /\ UNCHANGED thread_hwnd
          /\ UNCHANGED SpawnFrame

SpecDefaults == InitEvents /\ [][NextDefaults]_vars

(***************************************************************************)
(* SpecOwned: the main window runs its loop; a second Base is constructed   *)
(* with the first as parent, for a modal dialog or for a child window, and *)
(* worker threads call run_ui_thread on either Base.                       *)
(***************************************************************************)
OwnedFrame == <<hwnd, is_dialog, parent_ptr, com, pbm, enum_filters, user_events,
                privileged_events, QUIT_ERROR, slot_access, quit, ub, layout, queue,
                haccel, loop_pc, loop_result, last, fails, nreg, nposted>>

\* Base::new(dlg, Some(&main)) for the second Base
NewOwned(dlg) ==
    /\ owned.st = "none"
    /\ owned' = [NoOwned EXCEPT !.st = "new", !.is_dialog = dlg]
    /\ UNCHANGED <<heap, sentq, thr, thread_hwnd>>
    /\ UNCHANGED OwnedFrame

\* the second window is created: set_hwnd on its Base
CreateOwned ==
    /\ owned.st = "new"
    /\ owned' = [owned EXCEPT !.st = "created",
                              !.hwnd = IF owned.is_dialog THEN HMODAL ELSE HCHILD]
    /\ UNCHANGED <<heap, sentq, thr, thread_hwnd>>
    /\ UNCHANGED OwnedFrame

owned_run_ui_thread_to_self(t, res) ==
    /\ thr[t] = "idle"
    /\ owned.st # "none"
    /\ heap' = [heap EXCEPT ![t] = [NoBox EXCEPT !.st = "live", !.res = res,
                                                 !.maker = "run_ui_thread"]]
    /\ thread_hwnd' = [thread_hwnd EXCEPT ![t] = owned.hwnd]
    /\ LET p == WndMsg(WM_UI_THREAD, AsUsize(WM_UI_THREAD), t)
       IN  IF owned.hwnd # NULL
           THEN SendMessage(t, owned.hwnd, p)
           ELSE /\ thr' = [thr EXCEPT ![t] = "done"]
                /\ UNCHANGED sentq
    /\ UNCHANGED owned
    /\ UNCHANGED OwnedFrame
\* worker thread t calls run_ui_thread(func) on the second Base, func returning
\* res: self.hwnd is the second window's handle (kept in thread_hwnd[t]), and
\* WM_UI_THREAD goes to its root owner
owned_run_ui_thread(t, res) ==
    /\ thr[t] = "idle"
    /\ owned.st # "none"
    /\ heap' = [heap EXCEPT ![t] = [NoBox EXCEPT !.st = "live", !.res = res,
                                                 !.maker = "run_ui_thread"]]
    /\ thread_hwnd' = [thread_hwnd EXCEPT ![t] = owned.hwnd]
    /\ LET root == GetRootOwner(owned.hwnd)
           p == WndMsg(WM_UI_THREAD, AsUsize(WM_UI_THREAD), t)
       IN  IF root.ok
           THEN SendMessage(t, root.h, p)
           ELSE /\ thr' = [thr EXCEPT ![t] = "done"]
                /\ UNCHANGED sentq
    /\ UNCHANGED owned
    /\ UNCHANGED OwnedFrame

\* inside GetMessage, a message sent from another thread is processed by the
\* window procedure of the window it was sent to: the first Base's closures for
\* the main window, the second Base's WM_UI_THREAD closure for the second window
DeliverSentTo ==
    /\ loop_pc = "running"
    /\ sentq # <<>>
    /\ LET s == Head(sentq)
       IN  IF owned.st = "created" /\ s.to = owned.hwnd
           THEN /\ Commit(ui_thread_handler(World(UI), s.msg).w)
                /\ owned' = [owned EXCEPT !.decoded = @ \cup {s.msg.lparam}]
                /\ thr' = [thr EXCEPT ![s.from] = "done"]
           ELSE /\ Commit(Deliver(World(UI), s.to, s.msg))
                /\ thr' = [thr EXCEPT ![s.from] = "done"]
                /\ UNCHANGED owned
    /\ sentq' = Tail(sentq)
    /\ UNCHANGED <<hwnd, is_dialog, parent_ptr, com, pbm, enum_filters, user_events,
                   privileged_events, queue, thread_hwnd, haccel, loop_pc, loop_result,
                   last, nreg, nposted>>

\* the main window exists and its loop runs
InitOwned ==
    /\ hwnd = HMAIN
    /\ is_dialog = FALSE
    /\ parent_ptr = NoParent
    /\ user_events = <<>>
    /\ privileged_events = default_message_handlers
    /\ Quiet
    /\ haccel = NoAccel
    /\ loop_pc = "running"
    /\ loop_result = Running
    /\ nreg = 0

NextOwned ==
    \/ \E dlg \in BOOLEAN : NewOwned(dlg)
    \/ CreateOwned
    \/ \E t \in Workers, res \in {"ok", "err"} : loop_pc = "running" /\ owned_run_ui_thread(t, res)
    \/ \E t \in Workers, res \in {"ok", "err"} :
          /\ loop_pc = "running"
          /\ run_ui_thread(t, res)
          /\ UNCHANGED <<thread_hwnd, owned>>
          /\ UNCHANGED OwnedFrame
    \/ DeliverSentTo
    \/ RetrieveQuit

SpecOwned == InitOwned /\ [][NextOwned]_vars

(***************************************************************************)
(* SpecBase: a Base constructed with or without a parent and with either   *)
(* dialog flag, and every operation of it: registration, set_hwnd,         *)
(* processing, clear_events, add_to_layout_arranger, run_ui_thread.        *)
(***************************************************************************)
\* what the operations on the tables, the handle and the closures leave alone
BaseFrame == <<queue, sentq, thr, thread_hwnd, haccel, loop_pc, loop_result, nposted,
               owned, com, pbm, enum_filters>>

SetHwnd_rebuilds(h) ==
    /\ hwnd' = h
    /\ is_dialog' = FALSE
    /\ parent_ptr' = NoParent
    /\ user_events' = <<>>
    /\ privileged_events' = default_message_handlers
    /\ layout' = NoLayout
    /\ last' = Did("set_hwnd", NoMsg, Ok, FALSE, <<>>, <<>>, FALSE)
    /\ UNCHANGED <<nreg, QUIT_ERROR, slot_access, quit, heap, ub, fails>>
    /\ UNCHANGED BaseFrame
\* set_hwnd(&mut self, hwnd): one assignment, to self.hwnd
SetHwnd(h) ==
    /\ set_hwnd(h)
    /\ UNCHANGED <<is_dialog, parent_ptr, user_events, privileged_events, layout>>
    /\ UNCHANGED <<nreg, QUIT_ERROR, slot_access, quit, heap, ub, fails>>
    /\ UNCHANGED BaseFrame

InitBase ==
    /\ \E dlg \in BOOLEAN, parent \in {NoParent, ParentBase} : new(dlg, parent)
    /\ Quiet
    /\ haccel = NoAccel
    /\ loop_pc = "idle"
    /\ loop_result = Running
    /\ nreg = 0

NextBase ==
    \/ /\ on(WM_COMMAND, "ok")
       /\ UNCHANGED <<layout, hwnd, is_dialog, parent_ptr, QUIT_ERROR, slot_access, quit,
                      heap, ub, fails>>
       /\ UNCHANGED BaseFrame
    \/ /\ privileged_on(WM_COMMAND, "ok")
       /\ UNCHANGED <<layout, hwnd, is_dialog, parent_ptr, QUIT_ERROR, slot_access, quit,
                      heap, ub, fails>>
       /\ UNCHANGED BaseFrame
    \/ \E h \in {NULL, HMAIN} : loop_pc = "idle" /\ SetHwnd(h)
    \/ EnterLoop
    \/ /\ ProcessUser(WndMsg(WM_COMMAND, 0, 0))
       /\ UNCHANGED <<hwnd, is_dialog, parent_ptr, user_events, privileged_events, nreg>>
       /\ UNCHANGED BaseFrame
    \/ /\ ProcessPrivileged(WndMsg(WM_COMMAND, 0, 0))
       /\ UNCHANGED <<hwnd, is_dialog, parent_ptr, user_events, privileged_events, nreg>>
       /\ UNCHANGED BaseFrame
    \/ /\ clear_events
       /\ UNCHANGED <<layout, hwnd, is_dialog, parent_ptr, nreg, QUIT_ERROR, slot_access,
                      quit, heap, ub, fails>>
       /\ UNCHANGED BaseFrame
    \/ add_to_layout_arranger(HCHILD, "Fixed", "Resized")
    \/ \E t \in Workers :
          /\ run_ui_thread(t, "ok")
          /\ UNCHANGED thread_hwnd
          /\ UNCHANGED SpawnFrame
    \/ DeliverSent

SpecBase == InitBase /\ [][NextBase]_vars

(***************************************************************************)
(* Properties.                                                             *)
(***************************************************************************)
\* the sent messages still waiting that carry the box at address a
PendingFor(a) == {i \in DOMAIN sentq : sentq[i].msg.lparam = a}

\* the loop ended because GetMessage returned WM_QUIT
QuitRetrieved == loop_pc = "returned" /\ loop_result.kind # "retrieval"

\* C1: each boxed callback handed to run_ui_thread by a worker thread while the loop
\* runs is invoked exactly once, on the UI thread, and freed exactly once: a sender
\* whose call has returned has had its callback invoked and freed once by the UI
\* thread; a waiting sender has exactly one message in flight and a live, uninvoked
\* box; no box is reclaimed twice; and a loop that ends on a quit leaves none waiting.
C1_ExactlyOnce ==
    /\ ~ub
    /\ \A t \in Workers :
          /\ heap[t].invoked <= 1 /\ heap[t].freed <= 1
          /\ thr[t] = "idle" => heap[t] = NoBox /\ PendingFor(t) = {}
          /\ thr[t] = "sending" =>
                /\ Cardinality(PendingFor(t)) = 1
                /\ heap[t].st = "live" /\ heap[t].invoked = 0 /\ heap[t].freed = 0
          /\ thr[t] = "done" =>
                /\ PendingFor(t) = {}
                /\ heap[t].st = "freed" /\ heap[t].invoked = 1 /\ heap[t].freed = 1
                /\ heap[t].by = UI
          /\ QuitRetrieved => thr[t] # "sending"
C1_Witness ==
    /\ loop_pc = "running"
    /\ \A t \in Workers : thr[t] = "done" /\ heap[t].invoked = 1 /\ heap[t].res = "ok"

\* the closures registered through privileged_on()
PrivHids ==
    {privileged_events[i].func.hid :
        i \in {j \in DOMAIN privileged_events : privileged_events[j].func.kind = "closure"}}

C3_QuitCodeReturned ==
    (loop_pc = "returned" /\ last.op = "quit" /\ ~last.slot.some)
    => loop_result = Exit(last.code) /\ QUIT_ERROR = None
C3_Witness ==
    loop_pc = "returned" /\ last.op = "quit" /\ ~last.slot.some /\ loop_result = Exit(-1)

\* C4: of the failures handed to post_quit_error before the quit is retrieved,
\* QUIT_ERROR holds the first, whatever follows, and the loop returns the first.
C4_FirstFailureKept ==
    /\ (loop_pc = "running" /\ fails # <<>>) => QUIT_ERROR = fails[1]
    /\ (loop_pc = "running" /\ fails = <<>>) => QUIT_ERROR = None
    /\ (QuitRetrieved /\ fails # <<>>) => loop_result = Failed(fails[1])
C4_Witness ==
    /\ QuitRetrieved
    /\ Len(fails) >= 2 /\ fails[2] # fails[1]
    /\ loop_result = Failed(fails[1])

\* the closures table events holds for message id, in insertion order
ForId(events, id) == SelectSeq(events, LAMBDA e : e.msg_id = id)
\* the closures a call invoked, by registration number, in order
InvokedHids(inv) == [i \in DOMAIN inv |-> inv[i].hid]
HidsOf(entries) == [i \in DOMAIN entries |-> entries[i].func.hid]

\* C5: process_user_message invokes at most one closure, out of the user table, and
\* it is the one registered last for the message id (the highest registration
\* number among the id's entries); with entries for the id it invokes exactly one.
C5_OnlyLastUserHandler ==
    last.op = "process_user_message" =>
        LET mine == ForId(user_events, last.msg.msg_id)
        IN  /\ Len(last.inv) = (IF Len(mine) = 0 THEN 0 ELSE 1)
            /\ \A k \in DOMAIN last.inv :
                  /\ last.inv[k].tbl = "user"
                  /\ \E i \in DOMAIN mine : mine[i].func.hid = last.inv[k].hid
                  /\ \A i \in DOMAIN mine : mine[i].func.hid <= last.inv[k].hid
C5_Witness ==
    /\ last.op = "process_user_message"
    /\ Len(ForId(user_events, last.msg.msg_id)) >= 2
    /\ Len(last.inv) = 1

\* a call in which no closure for the id fails returns Ok after invoking every
\* privileged closure for the id once, in insertion order
C6_AllInOrder ==
    LET mine == ForId(privileged_events, last.msg.msg_id)
    IN  (last.op = "process_privileged_messages"
         /\ \A i \in DOMAIN mine : mine[i].func.eff # "err") =>
            /\ last.ret = Ok
            /\ InvokedHids(last.inv) = HidsOf(mine)
            /\ \A k \in DOMAIN last.inv : last.inv[k].tbl = "privileged"
\* a successful privileged_on() registration adds one entry at the end
C6_Appends ==
    (last'.op = "privileged_on" /\ ~last'.panic /\ nreg' # nreg) =>
        /\ Len(privileged_events') = Len(privileged_events) + 1
        /\ SubSeq(privileged_events', 1, Len(privileged_events)) = privileged_events
\* C6: a process_privileged_messages call in which no closure fails invokes every
\* closure of the privileged table for the message id exactly once, in registration
\* order; and a registration through privileged_on() only appends: the entries
\* already in the table stay, in place.
C6_AccumulateInOrder == [](C6_AllInOrder) /\ [][C6_Appends]_vars
C6_Witness ==
    /\ last.op = "process_privileged_messages" /\ last.ret.ok
    /\ Len(last.inv) >= 3

\* position of the first closure of entries that returns an error, 0 if none does
FirstFailing(entries) ==
    LET F == {i \in DOMAIN entries : entries[i].func.eff = "err"}
    IN  IF F = {} THEN 0 ELSE CHOOSE i \in F : \A j \in F : i <= j

\* C7: when the k-th privileged closure for the message id fails, the call has
\* invoked exactly closures 1..k for that id, none after it, and returns the k-th
\* closure's error.
C7_FailureAborts ==
    last.op = "process_privileged_messages" =>
        LET mine == ForId(privileged_events, last.msg.msg_id)
            k == FirstFailing(mine)
        IN  k # 0 =>
              /\ InvokedHids(last.inv) = HidsOf(SubSeq(mine, 1, k))
              /\ last.ret = Err("handler", mine[k].func.hid)
C7_Witness ==
    /\ last.op = "process_privileged_messages" /\ ~last.ret.ok
    /\ Len(last.inv) >= 2
    /\ Len(ForId(privileged_events, last.msg.msg_id)) > Len(last.inv)

\* a step that is a registration attempt made with a non-NULL handle
C8_Step ==
    (hwnd # NULL /\ last'.op \in {"on", "privileged_on"}) =>
        /\ last'.panic /\ last'.ret = Err("UseAfterCreation", 0)
        /\ user_events' = user_events
        /\ privileged_events' = privileged_events
\* C8: a registration attempted through on() or privileged_on() while the handle
\* is not NULL panics (UseAfterCreation) and leaves both tables as they were.
C8_UseAfterCreation == [][C8_Step]_vars
C8_Witness ==
    /\ hwnd # NULL /\ last.panic /\ last.op = "privileged_on"
    /\ user_events # <<>>

\* the user closure run for WM_COMMAND, if one is registered
CommandInvocations(inv) ==
    {i \in DOMAIN inv : inv[i].tbl = "user" /\ inv[i].kind = "closure"
                        /\ \E j \in DOMAIN user_events :
                              /\ user_events[j].msg_id = WM_COMMAND
                              /\ user_events[j].func.hid = inv[i].hid}

\* C9: with an accelerator table given, an iteration whose message the accelerator
\* step consumes runs no other step, and runs the WM_COMMAND closure once (if one
\* is registered) and nothing else out of the user table.
C9_AcceleratorOnly ==
    (last.op = "iterate" /\ haccel # NoAccel /\ AccelMatches(haccel, last.msg)) =>
        /\ last.steps = <<Step("accel", TRUE)>>
        /\ Cardinality(CommandInvocations(last.inv))
              = (IF ForId(user_events, WM_COMMAND) = <<>> THEN 0 ELSE 1)
        /\ \A i \in DOMAIN last.inv :
              last.inv[i].tbl = "user" => i \in CommandInvocations(last.inv)
C9_Witness ==
    /\ last.op = "iterate" /\ last.steps = <<Step("accel", TRUE)>>
    /\ last.msg.hwnd = HCHILD
    /\ Cardinality(CommandInvocations(last.inv)) = 1

StepNames(steps) == [i \in DOMAIN steps |-> steps[i].step]

\* C10: an iteration runs the steps in the order accelerator (when a table is
\* given), dialog navigation, translate+dispatch; each step but the last deferred;
\* the last one consumed the message; a step consumes exactly the messages the
\* substrate says it does; so one step handles the message, and a message both
\* pre-filters defer is dispatched.
C10_OneStepInOrder ==
    last.op = "iterate" =>
        LET st == last.steps
            n == Len(st)
            full == IF haccel # NoAccel THEN <<"accel", "dialog", "dispatch">>
                    ELSE <<"dialog", "dispatch">>
        IN  /\ n >= 1 /\ n <= Len(full)
            /\ StepNames(st) = SubSeq(full, 1, n)
            /\ st[n].consumed
            /\ \A i \in 1..(n - 1) : ~st[i].consumed
            /\ \A i \in 1..n :
                  /\ st[i].step = "accel" => st[i].consumed = AccelMatches(haccel, last.msg)
                  /\ st[i].step = "dialog" => st[i].consumed = IsDialogMessage(last.msg)
            /\ Cardinality({i \in 1..n : st[i].consumed}) = 1
C10_Witness ==
    /\ last.op = "iterate"
    /\ StepNames(last.steps) = <<"accel", "dialog", "dispatch">>
    /\ last.inv # <<>>

\* the accelerator step consumed the message of the last iteration
AccelConsumed == haccel # NoAccel /\ AccelMatches(haccel, last.msg)

\* C11 as claimed: for a root that is not a dialog (is_dialog false), the dialog
\* navigation step consumes no message: every iteration the accelerator step did
\* not consume ends in translate+dispatch.
C11_DialogRootOnly ==
    (last.op = "iterate" /\ ~is_dialog /\ ~AccelConsumed) =>
        /\ last.steps[Len(last.steps)] = Step("dispatch", TRUE)
        /\ \A i \in DOMAIN last.steps :
              last.steps[i].step = "dialog" => ~last.steps[i].consumed

\* C11: the dialog navigation step is tried for every message the accelerator step
\* did not consume, whether or not the window is a dialog (is_dialog is not read):
\* the message ends there when IsDialogMessage consumes it, and goes to
\* translate+dispatch exactly when it does not.
C11_NavigationForAnyRoot ==
    (last.op = "iterate" /\ ~AccelConsumed) =>
        LET n == Len(last.steps)
        IN  /\ n >= 1
            /\ IsDialogMessage(last.msg) => last.steps[n] = Step("dialog", TRUE)
            /\ ~IsDialogMessage(last.msg) =>
                  /\ n >= 2
                  /\ last.steps[n] = Step("dispatch", TRUE)
                  /\ last.steps[n - 1] = Step("dialog", FALSE)
C11_Witness ==
    /\ last.op = "iterate" /\ ~is_dialog /\ ~AccelConsumed
    /\ last.msg.hwnd = HCHILD
    /\ last.steps = <<Step("dialog", TRUE)>>

\* C12 as claimed: post does not block: no calling thread is ever found inside post
\* waiting for the UI thread while its payload is pending.
C12_NonBlocking == \A t \in Workers : thr[t] # "sending"

\* C12: post is synchronous.  While a payload is pending its poster is still inside
\* post (SendMessage has not returned), with the payload live and not yet invoked; a
\* poster that has returned has no message pending, and a payload it sent has been
\* invoked and freed by then.  Post returns at once only when nothing was sent.
C12_SynchronousPost ==
    \A t \in Workers :
        /\ PendingFor(t) # {} => thr[t] = "sending"
        /\ thr[t] = "sending" =>
              /\ Cardinality(PendingFor(t)) = 1
              /\ heap[t].st = "live" /\ heap[t].invoked = 0
        /\ thr[t] = "done" =>
              /\ PendingFor(t) = {}
              /\ heap[t].st = "freed" => heap[t].invoked = 1 /\ heap[t].by = UI
C12_Witness ==
    \E t, u \in Workers :
        /\ thr[t] = "sending" /\ heap[t].maker = "spawn_new_thread"
        /\ PendingFor(t) # {}
        /\ thr[u] = "done" /\ heap[u].maker = "run_ui_thread" /\ heap[u].st = "freed"

\* the loop dispatches a message that has the reserved id and another tag
C13_Step ==
    (/\ loop_pc = "running" /\ queue # <<>> /\ queue' = Tail(queue)
     /\ Head(queue).hwnd = hwnd
     /\ Head(queue).msg_id = WM_UI_THREAD
     /\ Head(queue).wparam # WM_UI_THREAD)
    => /\ last'.inv = <<[tbl |-> "privileged", kind |-> "ui_thread", hid |-> 0]>>
       /\ heap' = heap
       /\ ub' = ub
       /\ QUIT_ERROR' = QUIT_ERROR /\ quit' = quit
       /\ fails' = fails
\* C13: when the WM_UI_THREAD handler receives a message whose tag (wparam) is not
\* the reserved identifier, nothing happens: no box is dereferenced, invoked or
\* freed, QUIT_ERROR and the quit flag stay as they were, and no failure is reported.
C13_TagMismatchIgnored == [][C13_Step]_vars

\* thread t has returned from a post that sent nothing; its box is still allocated
Leaked(t) == thr[t] = "done" /\ heap[t].st = "live"
\* this step is a post by thread t whose target has no root ancestor to resolve:
\* run_ui_thread with a NULL handle, or a failed spawned thread given a NULL handle
PostUnresolved(t) ==
    \/ thr[t] = "idle" /\ thr'[t] \notin {"idle", "spawned"} /\ hwnd = NULL
    \/ /\ thr[t] = "spawned" /\ thr'[t] # "spawned" /\ thread_hwnd[t] = NULL
       /\ heap'[t].st # "none"
C14_Step ==
    \A t \in Workers :
        /\ PostUnresolved(t) =>
              /\ thr'[t] = "done"
              /\ sentq' = sentq /\ queue' = queue
              /\ ub' = ub
              /\ heap'[t].st = "live" /\ heap'[t].invoked = 0 /\ heap'[t].freed = 0
        /\ Leaked(t) => thr'[t] = "done" /\ heap'[t] = heap[t]
\* C14: a post that cannot resolve the root ancestor (the handle is NULL) returns
\* normally, puts no message in any queue and leaves its box allocated; that box
\* stays as it is from then on: nobody invokes it, nobody frees it.
C14_UnresolvedRootLeaks == [][C14_Step]_vars
C14_Witness ==
    \E t, u \in Workers :
        /\ Leaked(t) /\ heap[t].maker = "spawn_new_thread" /\ heap[t].invoked = 0
        /\ Leaked(u) /\ heap[u].maker = "run_ui_thread" /\ heap[u].freed = 0
        /\ hwnd # NULL /\ loop_pc = "running" /\ nposted = MaxInputs /\ queue = <<>>

\* the error of the payload at address a, as post_quit_error(p, err) records it
PayloadError(a) == MsgError(WndMsg(WM_UI_THREAD, 0, 0), Err("payload", a))

HandlerRan(inv) == \E i \in DOMAIN inv : inv[i].kind = "ui_thread"

\* every box that was invoked or freed was so by the UI thread, once
C16_ByReceiver ==
    \A a \in Boxes :
        /\ heap[a].st \in {"none", "live"} =>
              heap[a].invoked = 0 /\ heap[a].freed = 0 /\ heap[a].by = -1
        /\ heap[a].st = "freed" =>
              heap[a].invoked = 1 /\ heap[a].freed = 1 /\ heap[a].by = UI
\* a box is invoked or freed only in a step of the UI thread that runs the
\* WM_UI_THREAD handler for the message carrying it: a sent message being processed
\* inside GetMessage, or an iteration whose handler called run_ui_thread itself; a
\* step in which a thread posts changes no box but the one it allocates
C16_Step ==
    /\ \A a \in Boxes :
          (heap'[a].invoked # heap[a].invoked \/ heap'[a].freed # heap[a].freed
           \/ (heap'[a].st = "freed" /\ heap[a].st # "freed")) =>
              /\ loop_pc = "running"
              /\ \A t \in Workers : thr[t] \in {"idle", "spawned"} => thr'[t] = thr[t]
              /\ \/ /\ sentq # <<>> /\ sentq' = Tail(sentq)
                    /\ Head(sentq).msg.msg_id = WM_UI_THREAD
                    /\ Head(sentq).msg.lparam = a
                 \/ /\ queue # <<>> /\ queue' = Tail(queue)
                    /\ a = UiBox /\ HandlerRan(last'.inv)
    /\ \A t \in Workers :
          (thr[t] \in {"idle", "spawned"} /\ thr'[t] # thr[t]) =>
              /\ \A a \in Boxes \ {t} : heap'[a] = heap[a]
              /\ heap'[t].invoked = 0 /\ heap'[t].freed = 0 /\ heap'[t].st # "freed"
\* C16: a payload handed to post is invoked and freed only by the receiver, on the
\* UI thread, inside the WM_UI_THREAD handler: the thread that posted it never
\* invokes it and never frees it (a handler that calls run_ui_thread on the UI
\* thread has its payload reclaimed by the WM_UI_THREAD handler too).
C16_DestroyedByReceiverOnly == [](C16_ByReceiver) /\ [][C16_Step]_vars
C16_Witness ==
    /\ heap[UiBox].st = "freed" /\ heap[UiBox].by = UI
    /\ \E t, u \in Workers :
          /\ thr[t] = "done" /\ heap[t].st = "freed" /\ heap[t].by = UI
          /\ heap[t].maker = "spawn_new_thread"
          /\ Leaked(u)

\* thread t was spawned and its callback failed: the thread boxed the error
WorkerFailed(t) == heap[t].maker = "spawn_new_thread"

\* C17 as claimed: whenever a spawned thread's callback has failed, its one payload
\* is on its way to the window's root or has been handled there (and then the loop
\* returns an error once it ends on a quit).
C17_FailureAlwaysPosted ==
    \A t \in Workers :
        WorkerFailed(t) =>
            \/ thr[t] = "sending" /\ Cardinality(PendingFor(t)) = 1
            \/ /\ thr[t] = "done" /\ heap[t].st = "freed"
               /\ QuitRetrieved => loop_result.kind = "err"

\* the body of a spawned thread ends in one of two ways: nothing allocated and
\* nothing sent; or one box holding an error, and, when the handle the thread was
\* given has a root, exactly one WM_UI_THREAD message for that root carrying the tag
\* and the box, else nothing sent
C17_Step ==
    \A t \in Workers :
        (thr[t] = "spawned" /\ thr'[t] # "spawned") =>
            \/ /\ thr'[t] = "done" /\ heap'[t] = NoBox /\ heap[t] = NoBox
               /\ sentq' = sentq /\ queue' = queue
            \/ /\ heap'[t] = [NoBox EXCEPT !.st = "live", !.res = "err",
                                            !.maker = "spawn_new_thread"]
               /\ queue' = queue
               /\ IF thread_hwnd[t] # NULL
                  THEN /\ thr'[t] = "sending"
                       /\ sentq' = Append(sentq,
                              [from |-> t, to |-> thread_hwnd[t],
                               msg |-> WndMsg(WM_UI_THREAD, WM_UI_THREAD, t)])
                  ELSE thr'[t] = "done" /\ sentq' = sentq
\* a failed thread's payload carries an error; sent, it is pending once until the
\* UI thread handles it, and then its error went to post_quit_error and the loop
\* returns an error on the quit, this one when it was the first failure; not sent
\* (the thread was given a NULL handle), it stays allocated
C17_Handled ==
    \A t \in Workers :
        WorkerFailed(t) =>
            /\ heap[t].res = "err"
            /\ thr[t] \in {"sending", "done"}
            /\ thr[t] = "sending" =>
                  /\ thread_hwnd[t] # NULL
                  /\ Cardinality(PendingFor(t)) = 1
            /\ (thr[t] = "done" /\ thread_hwnd[t] # NULL) =>
                  /\ PendingFor(t) = {}
                  /\ heap[t].st = "freed" /\ heap[t].invoked = 1 /\ heap[t].by = UI
                  /\ \E i \in DOMAIN fails : fails[i] = PayloadError(t)
                  /\ QuitRetrieved =>
                        /\ loop_result.kind = "err"
                        /\ fails[1] = PayloadError(t) =>
                              loop_result = Failed(PayloadError(t))
            /\ (thr[t] = "done" /\ thread_hwnd[t] = NULL) =>
                  Leaked(t) /\ PendingFor(t) = {}
\* C17: a spawned thread whose callback succeeds allocates no payload and sends no
\* message.  One whose callback fails boxes the error; if the handle it copied when
\* it was spawned has a root, it sends exactly one WM_UI_THREAD message to that root
\* through the same path as run_ui_thread, and once the UI thread has handled it
\* run_main_loop returns an error on the quit (this error when it was the first);
\* if the thread was spawned while the handle was NULL, nothing is sent and the
\* payload stays allocated, also when the window exists by the time of the failure.
C17_SpawnFunnel == [](C17_Handled) /\ [][C17_Step]_vars
C17_Witness ==
    \E t, u \in Workers :
        /\ WorkerFailed(t) /\ thr[t] = "done" /\ heap[t].st = "freed"
        /\ QuitRetrieved /\ loop_result = Failed(PayloadError(t))
        /\ thr[u] = "done" /\ heap[u] = NoBox

\* this step is an iteration for a WM_COMMAND whose user closure calls run_ui_thread
PostingIteration ==
    /\ loop_pc = "running" /\ sentq = <<>> /\ queue # <<>> /\ queue' = Tail(queue)
    /\ Head(queue).hwnd = hwnd /\ Head(queue).msg_id = WM_COMMAND
    /\ LastFor(user_events, WM_COMMAND) # 0
    /\ user_events[LastFor(user_events, WM_COMMAND)].func.eff \in {"post_ok", "post_err"}
\* the call made from the handler is complete when the handler returns: the
\* WM_UI_THREAD closure ran once, nested in the iteration, after the user closure
\* started; the box has been invoked once and freed once by the UI thread; nothing
\* is left pending; a failing payload has set QUIT_ERROR and posted the quit; and
\* the loop is still running with the rest of its queue
C18_Step ==
    PostingIteration =>
        LET f == user_events[LastFor(user_events, WM_COMMAND)].func
        IN  /\ last'.op = "iterate"
            /\ last'.inv = << [tbl |-> "user", kind |-> "closure", hid |-> f.hid],
                              [tbl |-> "privileged", kind |-> "ui_thread", hid |-> 0] >>
            /\ heap'[UiBox] = [st |-> "freed",
                               res |-> (IF f.eff = "post_ok" THEN "ok" ELSE "err"),
                               invoked |-> 1, freed |-> 1, by |-> UI,
                               maker |-> "run_ui_thread"]
            /\ ub' = ub
            /\ sentq' = <<>> /\ thr' = thr
            /\ f.eff = "post_err" => QUIT_ERROR'.some /\ quit'.set
            /\ f.eff = "post_ok" => QUIT_ERROR' = QUIT_ERROR /\ quit' = quit
            /\ loop_pc' = "running"
\* between steps no call made on the UI thread is waiting for the UI thread: its box
\* is not live and no message carrying it is pending
C18_NothingWaits == heap[UiBox].st # "live" /\ PendingFor(UiBox) = {}
\* C18: run_ui_thread called on the UI thread from a handler the loop is
\* dispatching returns with its payload invoked exactly once, on the UI thread,
\* and freed; the call leaves nothing pending and blocks nobody, and the loop goes
\* on to retrieve the messages that follow.
C18_PostFromHandler == [](C18_NothingWaits) /\ [][C18_Step]_vars
C18_Witness ==
    /\ last.op = "iterate" /\ HandlerRan(last.inv)
    /\ nposted = MaxInputs /\ queue = <<>>
    /\ Len(fails) = MaxInputs /\ \A i \in DOMAIN fails : fails[i] = PayloadError(UiBox)
    /\ heap[UiBox].invoked = 1
    /\ loop_pc = "running"

\* every access to QUIT_ERROR so far was made on the UI thread, and it has been
\* taken only by a loop that retrieved a quit
C19_Accesses ==
    \A a \in slot_access :
        /\ a.thread = UI
        /\ a.op \in {"set", "take"}
        /\ a.op = "take" => QuitRetrieved
\* a step in which a worker thread runs (it posts, is spawned, or its callback
\* returns) neither changes nor accesses QUIT_ERROR; QUIT_ERROR is set only from
\* empty, by post_quit_error on the UI thread while the loop runs; it is emptied,
\* and taken, only by the step in which the loop retrieves the quit and returns
C19_Step ==
    /\ (\E t \in Workers : thr[t] \in {"idle", "spawned"} /\ thr'[t] # thr[t]) =>
          QUIT_ERROR' = QUIT_ERROR /\ slot_access' = slot_access
    /\ QUIT_ERROR' # QUIT_ERROR =>
          /\ loop_pc = "running"
          /\ \/ /\ ~QUIT_ERROR.some /\ QUIT_ERROR'.some
                /\ Access(UI, "set") \in slot_access'
                /\ loop_pc' = "running"
             \/ /\ QUIT_ERROR' = None
                /\ Access(UI, "take") \in slot_access'
                /\ quit.set /\ queue = <<>> /\ sentq = <<>>
                /\ loop_pc' = "returned" /\ loop_result' = Failed(QUIT_ERROR)
    /\ Access(UI, "take") \in slot_access' \ slot_access =>
          loop_pc = "running" /\ quit.set /\ loop_pc' = "returned"
\* C19: in every interleaving QUIT_ERROR is written only by code running on the UI
\* thread (post_quit_error, called from the window procedure and the WM_UI_THREAD
\* closure) and is read-and-cleared only by run_main_loop when it retrieves a quit;
\* a worker thread never writes or reads it, not even when its own callback fails.
C19_SlotOnUiThreadOnly == [](C19_Accesses) /\ [][C19_Step]_vars
C19_Witness ==
    /\ QuitRetrieved
    /\ slot_access = {Access(UI, "set"), Access(UI, "take")}
    /\ \E t \in Workers :
          /\ WorkerFailed(t) /\ heap[t].st = "freed"
          /\ loop_result = Failed(PayloadError(t))

\* a loop that returned the retrieval error returned nothing else, and never took
\* QUIT_ERROR
C20_Result ==
    loop_result.kind = "retrieval" =>
        /\ loop_pc = "returned"
        /\ loop_result = RetrievalError
        /\ Access(UI, "take") \notin slot_access
\* the loop returns in one of two ways.  With the retrieval error: whatever is
\* pending, in the very step, nothing dispatched, the quit flag and QUIT_ERROR as
\* they were, QUIT_ERROR not accessed.  Or on a quit that was retrievable, with an
\* exit code or the recorded error.  Once it returned it does nothing more.
C20_Step ==
    /\ (loop_pc = "running" /\ loop_pc' = "returned") =>
          \/ /\ loop_result' = RetrievalError
             /\ QUIT_ERROR' = QUIT_ERROR /\ slot_access' = slot_access
             /\ quit' = quit
             /\ queue' = queue /\ sentq' = sentq
             /\ last' = last /\ heap' = heap /\ fails' = fails
          \/ /\ quit.set /\ queue = <<>> /\ sentq = <<>>
             /\ loop_result'.kind \in {"ok", "err"}
             /\ last'.op = "quit"
    /\ loop_pc = "returned" =>
          loop_pc' = "returned" /\ loop_result' = loop_result /\ last' = last
          /\ queue' = queue /\ QUIT_ERROR' = QUIT_ERROR
\* C20: when GetMessage itself fails, run_main_loop returns the retrieval error at
\* once, a result that is neither an exit code nor a recorded handler error: no
\* further message is dispatched, no quit is awaited, and QUIT_ERROR is left as it
\* was, neither read nor cleared.
C20_RetrievalFailure == [](C20_Result) /\ [][C20_Step]_vars
C20_Witness ==
    /\ loop_pc = "returned" /\ loop_result = RetrievalError
    /\ QUIT_ERROR.some /\ quit.set
    /\ queue # <<>>
    /\ slot_access = {Access(UI, "set")}

\* an error was recorded and its quit posted, and run_main_loop has not returned
ErrorPending == QUIT_ERROR.some /\ quit.set /\ loop_pc = "running"

\* from the recording of an error on, a step leaves the loop running, or is the
\* failure of GetMessage itself, or is the retrieval of the quit with nothing left
\* queued, no sent message waiting and no box live; a message leaves the queue only
\* by being the one the loop's iteration handled, and a sent payload leaves only
\* by being invoked and freed on the UI thread
C21_Step ==
    ErrorPending =>
        /\ \/ loop_pc' = "running"
           \/ loop_result'.kind = "retrieval"
           \/ /\ queue = <<>> /\ sentq = <<>>
              /\ \A a \in Boxes : heap[a].st # "live"
              /\ last'.op = "quit"
              /\ loop_result' = Failed(QUIT_ERROR)
        /\ queue' # queue =>
              \/ \E m \in Inputs : queue' = Append(queue, m)
              \/ /\ queue # <<>> /\ queue' = Tail(queue)
                 /\ last'.op = "iterate" /\ last'.msg = Head(queue)
        /\ sentq' # sentq =>
              \/ \E t \in Workers : Len(sentq') = Len(sentq) + 1 /\ sentq'[Len(sentq')].from = t
              \/ /\ sentq # <<>> /\ sentq' = Tail(sentq)
                 /\ LET a == Head(sentq).msg.lparam
                    IN  /\ heap[a].st = "live"
                        /\ heap'[a].st = "freed" /\ heap'[a].by = UI
                        /\ heap'[a].invoked = 1 /\ heap'[a].freed = 1
\* C21: once a handler error is recorded and the quit posted, the loop keeps running
\* until that quit is retrieved; every message queued and every payload in flight
\* is retrieved and handled (payloads invoked and freed) before the loop returns on
\* the quit, which then yields the recorded error.
C21_PumpsUntilQuit == [][C21_Step]_vars
C21_Witness ==
    /\ ErrorPending
    /\ queue # <<>>
    /\ sentq # <<>>
    /\ \E t \in Workers : heap[t].st = "freed" /\ heap[t].res = "err"

\* the step in which a quit is posted is the processing of a message by a handler;
\* it ends with the message fully processed (taken off the queue and consumed by
\* one of the loop's steps, or the payload freed and its sender released) and the
\* loop still running.  The loop stops running only in a retrieval step: on the
\* quit, with nothing else pending, or on a failure of GetMessage.
C22_Step ==
    /\ (~quit.set /\ quit'.set) =>
          /\ loop_pc = "running" /\ loop_pc' = "running"
          /\ loop_result' = Running
          /\ \/ /\ queue # <<>> /\ queue' = Tail(queue) /\ sentq' = sentq
                /\ last'.op = "iterate" /\ last'.msg = Head(queue)
                /\ last'.steps # <<>> /\ last'.steps[Len(last'.steps)].consumed
                /\ last'.inv # <<>>
             \/ /\ sentq # <<>> /\ sentq' = Tail(sentq) /\ queue' = queue
                /\ heap'[Head(sentq).msg.lparam].st = "freed"
                /\ thr'[Head(sentq).from] = "done"
    /\ loop_pc' # loop_pc =>
          /\ loop_pc = "running" /\ loop_pc' = "returned"
          /\ \/ loop_result'.kind = "retrieval"
             \/ /\ quit.set /\ queue = <<>> /\ sentq = <<>>
                /\ last'.op = "quit" /\ last'.msg.msg_id = WM_QUIT
                /\ heap' = heap /\ fails' = fails
\* C22: once a quit is posted the loop, every handler returning, eventually
\* returns; the handler that posted the quit runs to completion with the loop
\* still running; and the loop returns only in a retrieval step.
C22_CooperativeQuit == (quit.set ~> loop_pc = "returned") /\ [][C22_Step]_vars
C22_Witness ==
    /\ loop_pc = "returned" /\ loop_result = Exit(5)
    /\ last.op = "quit" /\ last.code = 5
    /\ nposted > 0
    /\ \E t \in Workers : heap[t].st = "freed" /\ heap[t].by = UI

\* how many privileged closures the window procedure runs for entries: all of
\* them, or those up to the first that fails
PrivilegedRun(entries) ==
    IF FirstFailing(entries) = 0 THEN Len(entries) ELSE FirstFailing(entries)

\* C23: for one message the window procedure first runs the privileged closures
\* registered for its id, in registration order (up to the first that fails), and
\* only after the last of them the one user closure for the id, the one registered
\* last: nothing out of the user table runs before a privileged closure.
C23_PrivilegedThenUser ==
    last.op = "wndproc" =>
        LET inv  == last.inv
            priv == ForId(privileged_events, last.msg.msg_id)
            mine == ForId(user_events, last.msg.msg_id)
            k    == PrivilegedRun(priv)
        IN  /\ Len(inv) = k + (IF Len(mine) = 0 THEN 0 ELSE 1)
            /\ \A i \in 1..k :
                  inv[i].tbl = "privileged" /\ inv[i].hid = priv[i].func.hid
            /\ \A i \in (k + 1)..Len(inv) :
                  inv[i].tbl = "user" /\ inv[i].hid = mine[Len(mine)].func.hid
            /\ \A i, j \in DOMAIN inv :
                  (inv[i].tbl = "user" /\ inv[j].tbl = "privileged") => j < i
C23_Witness ==
    /\ last.op = "wndproc" /\ last.msg.msg_id = WM_COMMAND
    /\ Len(last.inv) = 3
    /\ last.inv[1].tbl = "privileged" /\ last.inv[2].tbl = "privileged"
    /\ last.inv[3].tbl = "user"

\* a step in which the window procedure ran the WM_SIZE closure of Base::new
RearrangeStep ==
    /\ nposted' = nposted + 1
    /\ last'.op = "wndproc" /\ last'.msg.msg_id = WM_SIZE
    /\ \E i \in DOMAIN last'.inv : last'.inv[i].kind = "wm_size"

\* the client area a WM_SIZE message of the model carries
SizeOf(p) == CHOOSE sz \in ParentSizes : MakeLparam(sz) = p.lparam

\* the children registered that the substrate can move
Movable(la) == {i \in DOMAIN la.children : la.children[i].hchild \notin la.dead}

C24_Step ==
    RearrangeStep =>
        LET dW == SizeOf(last'.msg).w - layout.sz.w
            dH == SizeOf(last'.msg).h - layout.sz.h
        IN  /\ \A i \in Movable(layout) :
                  LET c  == layout.children[i]
                      r  == layout.rects[c.hchild]
                      r2 == layout'.rects[c.hchild]
                  IN  /\ c.horz = "Fixed" => r2.x = r.x /\ r2.w = r.w
                      /\ c.horz = "Resized" => r2.x = r.x /\ r2.w = r.w + dW
                      /\ c.horz = "Repositioned" => r2.x = r.x + dW /\ r2.w = r.w
                      /\ c.vert = "Fixed" => r2.y = r.y /\ r2.h = r.h
                      /\ c.vert = "Resized" => r2.y = r.y /\ r2.h = r.h + dH
                      /\ c.vert = "Repositioned" => r2.y = r.y + dH /\ r2.h = r.h
            /\ \A k \in Controls :
                  (\A i \in DOMAIN layout.children : layout.children[i].hchild # k)
                      => layout'.rects[k] = layout.rects[k]
\* C24: a rearrange for a parent that grew by (dW, dH) against the size recorded
\* before changes each registered child, per axis, by its rule: Fixed leaves origin
\* and extent; Resized adds the delta to the extent and leaves the origin;
\* Repositioned adds the delta to the origin and leaves the extent.  A control that
\* is not registered keeps its rectangle.
C24_RearrangeByRule == [][C24_Step]_vars
C24_Witness ==
    /\ last.op = "wndproc" /\ last.msg.msg_id = WM_SIZE
    /\ layout.dead = {}
    /\ Len(layout.children) = 2
    /\ layout.call.attempts = <<layout.children[1].hchild, layout.children[2].hchild>>
    /\ layout.children[1].horz = "Resized" /\ layout.children[1].vert = "Fixed"
    /\ layout.children[2].horz = "Repositioned" /\ layout.children[2].vert = "Repositioned"
    /\ LET dW == layout.call.new.w - layout.call.prev.w
           dH == layout.call.new.h - layout.call.prev.h
           a  == layout.children[1].hchild
           b  == layout.children[2].hchild
           ra == layout.call.before[a]
           rb == layout.call.before[b]
       IN  /\ dW < 0 /\ dH < 0
           /\ layout.rects[a] = Rect(ra.x, ra.y, ra.w + dW, ra.h)
           /\ layout.rects[b] = Rect(rb.x + dW, rb.y + dH, rb.w, rb.h)

\* the handles of the registered children, in registration order
ChildHandles(la) == [i \in DOMAIN la.children |-> la.children[i].hchild]

\* a rearrange records the size it was given, whatever the children and whatever
\* their updates did, measures against the size recorded before, and attempts the
\* children in registration order; nothing else changes the recorded size
C25_Step ==
    /\ RearrangeStep =>
          /\ layout'.sz = SizeOf(last'.msg)
          /\ layout'.call.new = SizeOf(last'.msg)
          /\ layout'.call.prev = layout.sz
          /\ layout'.call.attempts = ChildHandles(layout)
    /\ layout'.sz # layout.sz => RearrangeStep
\* C25: every rearrange sets the last-known parent size to the new size, with no
\* child registered and with a failing child update as well, and updates the
\* children in registration order; so each call's delta is measured against the
\* size given to the call before it.
C25_SizeAlwaysRecorded == [](layout.sz = layout.call.new) /\ [][C25_Step]_vars
C25_Witness ==
    /\ last.op = "wndproc" /\ last.msg.msg_id = WM_SIZE
    /\ ~layout.call.ret.ok
    /\ Len(layout.call.attempts) = 2
    /\ layout.call.prev \in ParentSizes
    /\ layout.call.new # layout.call.prev
    /\ layout.sz = layout.call.new

\* the registered children whose control is destroyed, by position
Unmovable(la) == {i \in DOMAIN la.children : la.children[i].hchild \in la.dead}

\* what a rearrange of la reports: the failure of the first unmovable child
FirstFailure(la) ==
    IF Unmovable(la) = {} THEN Ok
    ELSE LET i == CHOOSE i \in Unmovable(la) : \A j \in Unmovable(la) : i <= j
         IN  Err("update", la.children[i].hchild)

C26_Step ==
    RearrangeStep =>
        LET dW == SizeOf(last'.msg).w - layout.sz.w
            dH == SizeOf(last'.msg).h - layout.sz.h
        IN  /\ layout'.call.attempts = ChildHandles(layout)
            /\ layout'.call.ret = FirstFailure(layout)
            /\ \A i \in Movable(layout) :
                  LET c == layout.children[i]
                  IN  layout'.rects[c.hchild] = Updated(c, layout.rects[c.hchild], dW, dH)
            /\ \A i \in Unmovable(layout) :
                  layout'.rects[layout.children[i].hchild]
                      = layout.rects[layout.children[i].hchild]
            /\ fails' = IF Unmovable(layout) = {} THEN fails
                        ELSE Append(fails, MsgError(last'.msg, FirstFailure(layout)))
\* C26: in a rearrange where updates of children fail, the update of every
\* registered child is attempted all the same, the movable ones get their new
\* rectangles, and the call reports the failure that is first in registration
\* order and no other.
C26_AllAttemptedFirstFailure == [][C26_Step]_vars
C26_Witness ==
    /\ last.op = "wndproc" /\ last.msg.msg_id = WM_SIZE
    /\ Len(layout.children) = 2
    /\ layout.call.attempts = ChildHandles(layout)
    /\ layout.dead = {layout.children[1].hchild}
    /\ layout.call.ret = Err("update", layout.children[1].hchild)
    /\ layout.rects[layout.children[2].hchild]
          # layout.call.before[layout.children[2].hchild]
    /\ Len(fails) = 1

\* no child handle is registered twice
C27_Unique ==
    \A i, j \in DOMAIN layout.children :
        layout.children[i].hchild = layout.children[j].hchild => i = j

\* a step that is a call of add_to_layout_arranger
AddStep ==
    /\ last'.op = "add_to_layout_arranger"
    /\ last' # last \/ layout'.children # layout.children

\* a call of add_to_layout_arranger, with the handle NULL or not, never panics; it
\* appends the child with the rules given when the handle is not registered yet,
\* and is rejected, the arranger left as it was, when it is.  No step removes an
\* entry or changes the rules of one.
C27_Step ==
    /\ Len(layout'.children) >= Len(layout.children)
    /\ SubSeq(layout'.children, 1, Len(layout.children)) = layout.children
    /\ layout'.children # layout.children => AddStep
    /\ AddStep =>
          /\ ~last'.panic
          /\ IF last'.ret.ok
             THEN /\ Len(layout'.children) = Len(layout.children) + 1
                  /\ LET c == layout'.children[Len(layout'.children)]
                     IN  /\ \A i \in DOMAIN layout.children :
                               layout.children[i].hchild # c.hchild
                         /\ <<c.horz, c.vert>> \in LayoutRules
             ELSE /\ last'.ret.kind = "duplicate"
                  /\ \E i \in DOMAIN layout.children :
                        layout.children[i].hchild = last'.ret.id
                  /\ layout' = layout
\* C27: add_to_layout_arranger is accepted before and after the window handle
\* becomes non-NULL; a child handle already registered is rejected; so each child
\* handle is registered at most once and keeps the rules it was registered with.
C27_RegisterAnyTimeOnce == [](C27_Unique) /\ [][C27_Step]_vars
C27_Witness ==
    /\ hwnd # NULL /\ nposted > 0
    /\ last.op = "add_to_layout_arranger" /\ last.ret.ok
    /\ Len(layout.children) = 2
    /\ layout.call.attempts = <<layout.children[1].hchild>>

\* a step that is a call of process_user_message
UserCallStep == last'.op = "process_user_message" /\ last' # last

\* with no closure registered for the id the call runs nothing, reports the message
\* unhandled and changes nothing; with closures for the id it runs one closure,
\* the one registered last for that id, and reports what it returned
C28_Step ==
    UserCallStep =>
        LET mine == ForId(user_events, last'.msg.msg_id)
        IN  IF mine = <<>>
            THEN /\ last'.inv = <<>>
                 /\ ~last'.handled /\ last'.ret = Ok
                 /\ UNCHANGED <<QUIT_ERROR, quit, heap, fails, layout, user_events,
                                privileged_events>>
            ELSE LET f == mine[Len(mine)].func
                 IN  /\ last'.inv = <<[tbl |-> "user", kind |-> f.kind, hid |-> f.hid]>>
                     /\ last'.handled = (f.eff # "err")
                     /\ last'.ret = IF f.eff = "err" THEN Err("handler", f.hid) ELSE Ok
\* C28: process_user_message for a message whose id has no closure in the user
\* table invokes no closure, those registered for other ids included, and reports
\* "unhandled"; with a closure registered for the id it invokes exactly that one.
C28_UnhandledWithoutHandler == [][C28_Step]_vars
C28_Witness ==
    /\ last.op = "process_user_message" /\ last.msg.msg_id = WM_SIZE
    /\ last.inv = <<>> /\ ~last.handled
    /\ ForId(user_events, WM_SIZE) = <<>>
    /\ Len(ForId(user_events, WM_COMMAND)) = 2

\* with an empty table a processing call invokes nothing: the user call reports
\* the message unhandled, the privileged call returns Ok
C29_NothingRuns ==
    /\ (last.op = "process_user_message" /\ user_events = <<>>) =>
          last.inv = <<>> /\ ~last.handled /\ last.ret = Ok
    /\ (last.op = "process_privileged_messages" /\ privileged_events = <<>>) =>
          last.inv = <<>> /\ last.ret = Ok

\* clear_events empties both tables, the closures of Base::new included, with the
\* handle NULL or not, and changes nothing else; a table grows again only by a
\* registration that was accepted
C29_Step ==
    /\ (last'.op = "clear_events" /\ last' # last) =>
          /\ user_events' = <<>> /\ privileged_events' = <<>>
          /\ ~last'.panic /\ last'.ret = Ok
          /\ UNCHANGED <<hwnd, QUIT_ERROR, quit, heap, fails, layout>>
    /\ (user_events = <<>> /\ user_events' # <<>>) =>
          hwnd = NULL /\ last'.op = "on" /\ last'.ret.ok
    /\ (privileged_events = <<>> /\ privileged_events' # <<>>) =>
          hwnd = NULL /\ last'.op = "privileged_on" /\ last'.ret.ok
\* C29: clear_events removes every entry of the user table and of the privileged
\* table, whatever the window handle is; from then on process_user_message reports
\* unhandled for every id and process_privileged_messages invokes no closure for
\* any id, until a registration is made.
C29_ClearRemovesAll == [](C29_NothingRuns) /\ [][C29_Step]_vars
C29_Witness ==
    /\ hwnd # NULL /\ nreg > 0
    /\ user_events = <<>> /\ privileged_events = <<>>
    /\ last.op = "process_privileged_messages" /\ last.msg.msg_id = WM_SIZE
    /\ last.inv = <<>>

\* a step that is a call of IUnknown::Release, explicit or by drop
ReleaseStep == com'.nrel = com.nrel + 1

\* a call of Release on a null pointer returns 0 and makes no virtual call; a call
\* on a non-null pointer makes one virtual call, returns its count, and leaves the
\* pointer null exactly when that count is 0
C30_Step ==
    ReleaseStep =>
        /\ IF com.vtbl = NULL
           THEN /\ com'.ret = 0 /\ com'.native = com.native
                /\ com'.refs = com.refs /\ com'.vtbl = NULL
           ELSE /\ com'.native = com.native + 1
                /\ com'.ret \in VtblRelease(com)
                /\ (com'.vtbl = NULL) = (com'.ret = 0)
        /\ com.zero => com'.ret = 0 /\ com'.native = com.native
\* C30: once a call of IUnknown::Release has returned 0 the wrapper's pointer is
\* null, and every later call, the one made by drop included, returns 0 and makes
\* no call of the COM object's Release.
C30_ReleaseIdempotent == [](com.zero => com.vtbl = NULL) /\ [][C30_Step]_vars
C30_Witness ==
    /\ com.st = "dropped" /\ com.zero
    /\ com.native = 2 /\ com.nrel = 4
    /\ com.ret = 0 /\ com.vtbl = NULL
    /\ ~com.dangling

\* C31: the message a GetStep struct converts to has the identifier PBM_GETSTEP,
\* wparam 0 and lparam 0, and is not a message a SetStep struct converts to.
C31_GetStepMessage ==
    pbm.by = "GetStep" =>
        /\ pbm.sent = WndMsg(PBM_GETSTEP, 0, 0)
        /\ \A step \in Steps : pbm.sent # SetStep_as_generic_wm(step)

\* C32: every WM_UI_THREAD message run_ui_thread or a spawned thread has sent and
\* that was not processed yet has the reserved identifier as its id and as its
\* wparam, and in lparam the address of a box that is live (made by Box::into_raw,
\* not yet taken back by Box::from_raw); no two of them carry the same address.
C32_WireContract ==
    /\ \A i \in DOMAIN sentq :
          /\ sentq[i].msg.msg_id = WM_UI_THREAD
          /\ sentq[i].msg.wparam = WM_UI_THREAD
          /\ sentq[i].msg.lparam \in Boxes
          /\ heap[sentq[i].msg.lparam].st = "live"
          /\ heap[sentq[i].msg.lparam].invoked = 0
    /\ \A i, j \in DOMAIN sentq :
          sentq[i].msg.lparam = sentq[j].msg.lparam => i = j
C32_Witness ==
    /\ Len(sentq) = 2
    /\ heap[sentq[1].msg.lparam].maker = "run_ui_thread"
    /\ heap[sentq[2].msg.lparam].maker = "spawn_new_thread"
    /\ sentq[1].msg.lparam # sentq[2].msg.lparam
    /\ sentq[1].msg.wparam = WM_UI_THREAD /\ sentq[2].msg.wparam = WM_UI_THREAD

\* the two closures of Base::new, as they stand in the privileged table
BuiltIn ==
    <<[msg_id |-> WM_SIZE, func |-> WmSizeHandler],
      [msg_id |-> WM_UI_THREAD, func |-> UiThreadHandler]>>
HasBuiltIn == Len(privileged_events) >= 2 /\ SubSeq(privileged_events, 1, 2) = BuiltIn

\* a Base as constructed
C33_New ==
    last.op = "new" =>
        /\ hwnd = NULL
        /\ user_events = <<>>
        /\ privileged_events = BuiltIn

\* the two closures go only by clear_events and never come back; with them a
\* WM_UI_THREAD message sent to the window has its box reclaimed and called and a
\* WM_SIZE message reaches rearrange; without them neither happens
C33_Step ==
    /\ (HasBuiltIn /\ ~HasBuiltIn') =>
          last'.op = "clear_events" /\ privileged_events' = <<>>
    /\ ~HasBuiltIn => ~HasBuiltIn'
    /\ (sentq # <<>> /\ sentq' = Tail(sentq)) =>
          LET s == Head(sentq)
          IN  /\ s.to = hwnd
              /\ thr'[s.from] = "done"
              /\ IF HasBuiltIn
                 THEN heap'[s.msg.lparam].st = "freed" /\ heap'[s.msg.lparam].invoked = 1
                 ELSE heap' = heap /\ heap[s.msg.lparam].st = "live"
    /\ (queue # <<>> /\ queue' = Tail(queue) /\ Head(queue).msg_id = WM_SIZE) =>
          IF HasBuiltIn
          THEN layout'.sz = Size(3, 2) /\ layout'.call.new = Size(3, 2)
          ELSE layout' = layout
\* C33: Base::new leaves a NULL handle, an empty user table and a privileged table
\* of exactly two closures, the WM_SIZE one that calls rearrange and the
\* WM_UI_THREAD one; set_hwnd, on, privileged_on and the processing of messages
\* keep the two; clear_events removes them, and from then on a WM_UI_THREAD
\* message sent to the window is not decoded: its box stays unclaimed.
C33_BuiltInHandlers == [](C33_New) /\ [][C33_Step]_vars
C33_Witness ==
    /\ hwnd # NULL /\ nreg > 0
    /\ ~HasBuiltIn
    /\ \E t \in Workers :
          thr[t] = "done" /\ heap[t].st = "live" /\ heap[t].invoked = 0
    /\ \E t \in Workers : thr[t] = "done" /\ heap[t].st = "freed"
    /\ layout.sz = Size(3, 2)

\* every WM_UI_THREAD message that waits was sent to the main window, whichever
\* Base the call was made on; the second Base's closure decoded nothing; no box
\* was called or freed twice
C34_ToRoot ==
    /\ \A i \in DOMAIN sentq :
          /\ sentq[i].to = hwnd
          /\ thread_hwnd[sentq[i].from] \in {HMODAL, HCHILD} =>
                sentq[i].to # thread_hwnd[sentq[i].from]
    /\ owned.decoded = {}
    /\ \A a \in Boxes : heap[a].invoked <= 1 /\ heap[a].freed <= 1

\* the processing of such a message: the box it names was live and is reclaimed,
\* called and freed by the main window's closure on the UI thread
C34_Step ==
    (sentq # <<>> /\ sentq' = Tail(sentq)) =>
        LET a == Head(sentq).msg.lparam
        IN  /\ heap[a].st = "live" /\ heap[a].invoked = 0
            /\ heap'[a].st = "freed" /\ heap'[a].invoked = 1 /\ heap'[a].by = UI
            /\ owned' = owned
\* C34: run_ui_thread sends WM_UI_THREAD to the root owner of the Base's window,
\* not to that window when it is a child or an owned modal dialog: the box posted
\* through the second Base is reclaimed and called once, by the main window's
\* WM_UI_THREAD closure, and never by the second Base's.
C34_RootOwnerDecodes == [](C34_ToRoot) /\ [][C34_Step]_vars
C34_Witness ==
    /\ owned.st = "created" /\ owned.hwnd = HMODAL
    /\ \E t \in Workers :
          /\ thread_hwnd[t] = HMODAL /\ thr[t] = "done"
          /\ heap[t].st = "freed" /\ heap[t].invoked = 1 /\ heap[t].by = UI
    /\ \E t \in Workers : thread_hwnd[t] = NULL /\ thr[t] = "done" /\ heap[t].st = "freed"
    /\ owned.decoded = {}

\* no WM_UI_THREAD message is ever in the posted queue, so none is retrieved into
\* the loop body where the accelerator and dialog steps are; the box of a sender
\* whose SendMessage returned was called once and freed
C35_NotRetrieved ==
    /\ \A i \in DOMAIN queue : queue[i].msg_id # WM_UI_THREAD
    /\ last.op = "iterate" => last.msg.msg_id # WM_UI_THREAD
    /\ \A t \in Workers :
          thr[t] = "done" => heap[t].st = "freed" /\ heap[t].invoked = 1

\* a sent WM_UI_THREAD message is processed by the WM_UI_THREAD closure, with any
\* accelerator table and dialog flag
C35_Step ==
    (sentq # <<>> /\ sentq' = Tail(sentq)) =>
        LET s == Head(sentq)
        IN  /\ s.msg.msg_id = WM_UI_THREAD /\ s.to = hwnd
            /\ heap[s.msg.lparam].st = "live"
            /\ heap'[s.msg.lparam].st = "freed"
            /\ heap'[s.msg.lparam].invoked = 1
            /\ thr'[s.from] = "done"
\* C35: a WM_UI_THREAD message of run_ui_thread is never consumed by the
\* TranslateAccelerator or the IsDialogMessage step of run_main_loop: it is sent,
\* not posted, so it is processed inside GetMessage and never retrieved; with any
\* accelerator table and any dialog flag its box reaches the WM_UI_THREAD closure.
C35_NeverConsumed == [](C35_NotRetrieved) /\ [][C35_Step]_vars
C35_Witness ==
    /\ haccel # NoAccel /\ is_dialog
    /\ last.op = "iterate" /\ last.steps = <<Step("accel", TRUE)>>
    /\ \E t \in Workers :
          thr[t] = "done" /\ heap[t].st = "freed" /\ heap[t].invoked = 1

\* no step changes the parent reference or the dialog flag
C36_Fixed == parent_ptr' = parent_ptr /\ is_dialog' = is_dialog
\* a step that changes the handle leaves both tables and the arranger as they were
C36_SetHwnd ==
    hwnd' # hwnd =>
        /\ user_events' = user_events
        /\ privileged_events' = privileged_events
        /\ layout' = layout
        /\ last'.op = "set_hwnd"
\* C36: parent_ptr and is_dialog are given to Base::new and never assigned again:
\* on, privileged_on, set_hwnd, the processing of messages, clear_events,
\* add_to_layout_arranger and run_ui_thread leave them as constructed; set_hwnd
\* assigns the handle only and changes neither event table nor the arranger.
C36_FixedAtConstruction == [][C36_Fixed /\ C36_SetHwnd]_vars
C36_Witness ==
    /\ parent_ptr = ParentBase /\ is_dialog
    /\ hwnd = HMAIN
    /\ nreg >= 2
    /\ layout.children # <<>>
    /\ \E t \in Workers : thr[t] = "done" /\ heap[t].st = "freed"
    /\ user_events = <<>> /\ privileged_events = <<>>
    /\ last.op = "clear_events"

\* the calls of the virtual table's Next that yielded an item: all but S_FALSE
C37_Kept == SelectSeq(enum_filters.calls, LAMBDA hr : hr # S_FALSE)
\* C37: the iterator of IEnumFilters yields one Ok item, the filter fetched, for
\* each call of Next answered S_OK and one Err item, the HRESULT, for each call
\* that failed, in the order of the calls; next() returned None exactly when the
\* last call was answered S_FALSE, so a failed call does not end the iteration.
C37_IterYields ==
    enum_filters.st = "iterating" =>
        /\ Len(enum_filters.items) = Len(C37_Kept)
        /\ \A i \in DOMAIN enum_filters.items :
              /\ enum_filters.items[i].some
              /\ enum_filters.items[i].ok <=> C37_Kept[i] = S_OK
              /\ enum_filters.items[i].ok =>
                    enum_filters.items[i].item =
                        Cardinality({j \in 1..i : C37_Kept[j] = S_OK})
              /\ ~enum_filters.items[i].ok => enum_filters.items[i].hr = C37_Kept[i]
        /\ enum_filters.ended <=>
              /\ enum_filters.calls # <<>>
              /\ enum_filters.calls[Len(enum_filters.calls)] = S_FALSE
        /\ \A i \in DOMAIN enum_filters.calls :
              enum_filters.calls[i] = S_FALSE => i = Len(enum_filters.calls)
C37_Witness ==
    /\ enum_filters.ended
    /\ enum_filters.n >= 2
    /\ \E i, j \in DOMAIN enum_filters.items :
          /\ i < j
          /\ ~enum_filters.items[i].ok /\ enum_filters.items[i].hr = E_FAIL
          /\ enum_filters.items[j].ok
    /\ Cardinality({i \in DOMAIN enum_filters.items : enum_filters.items[i].ok})
          = enum_filters.n

====
